---------------------------- MODULE Spec2Model ----------------------------
(***************************************************************************)
(* Model of sanger-qc-blast (package sanger_qc_trim).                      *)
(*                                                                         *)
(* The package is a set of pure functions.  Each function is an operator   *)
(* translated from its Python source; a call of a function is an action    *)
(* that draws the arguments from bounded sets and records the arguments    *)
(* together with what the call returned or raised.                         *)
(*                                                                         *)
(* Conventions                                                             *)
(*   - a Python list or str is a TLA+ sequence; Python index i (0-based)   *)
(*     is TLA+ index i+1; a str is a sequence of one-character strings;    *)
(*   - a Python tuple is a TLA+ tuple; None is the empty tuple <<>>;       *)
(*   - a Python float is an exact rational <<num, den>> with den > 0.      *)
(***************************************************************************)
EXTENDS Integers, Sequences, FiniteSets, TLC

\* ------------------------------------------------------------------------
\* Bounds of the model
\* ------------------------------------------------------------------------

\* Longest sequence / quality vector drawn as an argument.
MaxLen == 4

\* Phred qualities drawn for a quality vector: below, at and above the
\* thresholds drawn below.
QualValues == {10, 20, 30}

\* Thresholds drawn: one that some qualities equal (weights -10, 0, 10), one
\* that none equals (weights -5, 5, 15), a negative one below every quality
\* and one above every quality.
ThresholdValues == {-5, 15, 20, 35}

\* Symbols drawn for a sequence argument.
SeqSymbols == {"A", "G"}

\* Method names drawn: the two supported ones and two others.
MethodNames == {"mott", "ends", "MOTT", "max-window"}

\* All sequences over S of length 0..n.
SeqsUpTo(S, n) == UNION {[1..k -> S] : k \in 0..n}

VARIABLES
    fn,         \* trimming function last called: "none", "trim_mott", "trim_ends", "apply_trim"
    seq,        \* argument seq of apply_trim
    quals,      \* argument quals
    method,     \* argument method of apply_trim
    threshold,  \* argument threshold
    ret,        \* value returned (<<>> when nothing was returned)
    raised,     \* exception raised by the call: "none" or "ValueError"
    ran,        \* trimming algorithm apply_trim ran: "none", "mott", "ends"
    cfn,        \* AmbiguousBaseCaller method last called, "none" between calls
    config,     \* self.config of the AmbiguousBaseCaller
    cargs,      \* arguments of the method called (a record; <<>> before a call)
    cret,       \* value the method returned (<<>> before a call)
    qfn,        \* function of qc.py last called, "none" between calls
    qargs,      \* arguments of the function called (a record; <<>> before a call)
    qret,       \* value the function returned (<<>> before a call)
    ifn,        \* function of io_utils.py last called, "none" between calls
    iargs,      \* arguments of the function called (a record; <<>> before a call)
    iret,       \* value the function returned (<<>> before a call)
    pc,                     \* position of the qc / trim / all command: "none", "loop", "exited"
    cli_options,            \* command and options of the run (<<>> before a run)
    cli_files,              \* files: what discover_files returned
    cli_index,              \* number of the files the loop has taken
    cli_metrics_list,       \* metrics_list
    cli_trimmed_sequences,  \* trimmed_sequences of the trim and all commands
    cli_sequences_data,     \* sequences_data of the qc and all commands
    cli_base_call_annotations,  \* base_call_annotations: sample_id -> annotations
    cli_base_calls_for_plots,   \* base_calls_for_plots of the all command
    cli_skipped_count,      \* skipped_count
    cli_summary,            \* summary (<<>> until computed)
    cli_summary_calls,      \* number of calls of compute_summary_stats in the run
    cli_outputs,            \* outputs written by the run
    cli_plots,              \* plot files written by the run: <<sample_id, name>>
    cli_exit                \* how the run ended: "running", "returned", "Exit(code=1)", "ValueError"

trimVars == <<fn, seq, quals, method, threshold, ret, raised, ran>>

callerVars == <<cfn, config, cargs, cret>>

qcVars == <<qfn, qargs, qret>>

ioVars == <<ifn, iargs, iret>>

cliVars == <<pc, cli_options, cli_files, cli_index, cli_metrics_list, cli_trimmed_sequences,
             cli_sequences_data, cli_base_call_annotations, cli_base_calls_for_plots,
             cli_skipped_count, cli_summary, cli_summary_calls, cli_outputs, cli_plots,
             cli_exit>>

vars == <<fn, seq, quals, method, threshold, ret, raised, ran, cfn, config, cargs, cret,
          qfn, qargs, qret, ifn, iargs, iret, pc, cli_options, cli_files, cli_index,
          cli_metrics_list, cli_trimmed_sequences, cli_sequences_data,
          cli_base_call_annotations, cli_base_calls_for_plots, cli_skipped_count,
          cli_summary, cli_summary_calls, cli_outputs, cli_plots, cli_exit>>

\* ------------------------------------------------------------------------
\* Python helpers
\* ------------------------------------------------------------------------

Min(a, b) == IF a <= b THEN a ELSE b

Max(a, b) == IF a >= b THEN a ELSE b

\* A float is the rational <<numerator, denominator>> it stands for.

\* The odd part of a positive integer.
RECURSIVE OddPart(_)
OddPart(d) == IF d % 2 = 0 THEN OddPart(d \div 2) ELSE d

\* A float holds the rational x exactly: its denominator is a power of two
\* (the values of the model are far inside the range of a float).
IsDyadic(x) == x[1] % OddPart(x[2]) = 0

\* x lies exactly halfway between two multiples of 10^-ndigits.
IsTie(x, ndigits) == 2 * ((x[1] * 10 ^ ndigits) % x[2]) = x[2]

\* The exponent e with 2^e <= p/q < 2^(e+1), for p > 0 and q > 0.
RECURSIVE Log2Floor(_, _)
Log2Floor(p, q) ==
    IF p >= 2 * q THEN Log2Floor(p, 2 * q) + 1
    ELSE IF p < q THEN Log2Floor(2 * p, q) - 1
    ELSE 0

\* 2^k modulo q.
RECURSIVE TwoPowerMod(_, _)
TwoPowerMod(k, q) == IF k = 0 THEN 1 % q ELSE (2 * TwoPowerMod(k - 1, q)) % q

\* The float nearest to p/q (p > 0, q > 0, p/q not dyadic) is greater than
\* p/q. The float is m / 2^k, where k makes p * 2^k / q lie between 2^52 and
\* 2^53 and m is the nearest whole number: it lies above exactly when the
\* remainder of p * 2^k by q is more than half of q.
DoubleAbove(p, q) ==
    LET k == 52 - Log2Floor(p, q)
        r == ((p % q) * TwoPowerMod(k, q)) % q
    IN  2 * r > q

\* round(y, ndigits) of the float y nearest to the rational x (the result of
\* one float division of whole numbers): the multiple of 10^-ndigits
\* nearest to y. When x is a tie that y holds exactly, that is the even
\* neighbour; when x is a tie no float holds, it is the neighbour on the
\* side of x on which y lies. Off a tie y and x round alike: x is then at
\* least 1 / (2 * 10^ndigits * x[2]) away from the tie and y far nearer
\* to x.
Round(x, ndigits) ==
    LET p      == IF x[2] < 0 THEN -x[1] ELSE x[1]
        q      == IF x[2] < 0 THEN -x[2] ELSE x[2]
        scale  == 10 ^ ndigits
        num    == p * scale
        lower  == num \div q
        rest   == num % q
        up     == \/ 2 * rest > q
                  \/ /\ 2 * rest = q
                     /\ IF IsDyadic(<<p, q>>) THEN lower % 2 = 1
                        ELSE IF p > 0 THEN DoubleAbove(p, q)
                        ELSE ~DoubleAbove(-p, q)
    IN  <<IF up THEN lower + 1 ELSE lower, scale>>

\* Python s[a:b]: a negative index counts from the end, both indices are
\* clamped to [0, len(s)], and the slice is empty when the clamped bounds
\* are inverted.
PySliceShifted(s, a, b) ==
    LET n  == Len(s)
        lo == IF a < 0 THEN Max(a + n, 0) ELSE Min(a, n)
        hi == IF b < 0 THEN Max(b + n, 0) ELSE Min(b + 1, n)
    IN  IF hi <= lo THEN <<>> ELSE SubSeq(s, lo + 1, hi)

PySlice(s, a, b) ==
    LET n  == Len(s)
        lo == IF a < 0 THEN Max(a + n, 0) ELSE Min(a, n)
        hi == IF b < 0 THEN Max(b + n, 0) ELSE Min(b, n)
    IN  IF hi <= lo THEN <<>> ELSE SubSeq(s, lo + 1, hi)

\* ------------------------------------------------------------------------
\* trim.py: trim_mott
\* ------------------------------------------------------------------------

\* weights = [q - threshold for q in quals]
MottWeightsInclusive(q, T) == [i \in 1..Len(q) |-> q[i] - T + 1]

MottWeights(q, T) == [i \in 1..Len(q) |-> q[i] - T]

\* The loop variables before the first iteration.
MottInit ==
    [max_sum |-> 0, cur_sum |-> 0, best_start |-> 0, best_end |-> 0, cur_start |-> 0]

\* Mutant: the reset keeps the window's start.
MottStepKeepStart(st, i, val) ==
    LET cur == st.cur_sum + val
    IN  IF cur <= 0
        THEN [st EXCEPT !.cur_sum = 0]
        ELSE IF cur > st.max_sum
        THEN [st EXCEPT !.cur_sum = cur, !.max_sum = cur,
                        !.best_start = st.cur_start, !.best_end = i + 1]
        ELSE [st EXCEPT !.cur_sum = cur]

\* Mutant: a later window with an equal score replaces the best one.
MottStepLastBest(st, i, val) ==
    LET cur == st.cur_sum + val
    IN  IF cur <= 0
        THEN [st EXCEPT !.cur_sum = 0, !.cur_start = i + 1]
        ELSE IF cur >= st.max_sum
        THEN [st EXCEPT !.cur_sum = cur, !.max_sum = cur,
                        !.best_start = st.cur_start, !.best_end = i + 1]
        ELSE [st EXCEPT !.cur_sum = cur]

\* One iteration of the loop, for index i (0-based) and weight val.
MottStep(st, i, val) ==
    LET cur == st.cur_sum + val
    IN  IF cur <= 0
        THEN [st EXCEPT !.cur_sum = 0, !.cur_start = i + 1]
        ELSE IF cur > st.max_sum
        THEN [st EXCEPT !.cur_sum = cur, !.max_sum = cur,
                        !.best_start = st.cur_start, !.best_end = i + 1]
        ELSE [st EXCEPT !.cur_sum = cur]

\* for i, val in enumerate(weights): the iterations from index i on.
RECURSIVE MottLoop(_, _, _)
MottLoop(weights, i, st) ==
    IF i >= Len(weights)
    THEN st
    ELSE MottLoop(weights, i + 1, MottStep(st, i, weights[i + 1]))

trim_mott(q, T) ==
    IF q = <<>>
    THEN <<0, 0>>
    ELSE LET st == MottLoop(MottWeights(q, T), 0, MottInit)
         IN  <<st.best_start, st.best_end>>

\* ------------------------------------------------------------------------
\* trim.py: trim_ends
\* ------------------------------------------------------------------------

\* Mutant: the first-base search uses a strict comparison.
EndsFirstStrict(q, T) ==
    LET hits == {i \in 0..(Len(q) - 1) : q[i + 1] > T}
    IN  IF hits = {} THEN Len(q) ELSE CHOOSE i \in hits : \A j \in hits : i <= j

\* start = next((i for i, q in enumerate(quals) if q >= threshold), n)
EndsFirst(q, T) ==
    LET hits == {i \in 0..(Len(q) - 1) : q[i + 1] >= T}
    IN  IF hits = {} THEN Len(q) ELSE CHOOSE i \in hits : \A j \in hits : i <= j

\* Mutant: the last-base search stops at the end of the first run of bases
\* that reach the threshold.
EndsLastOfFirstRun(q, T) ==
    LET hits == {i \in 0..(Len(q) - 1) : \A k \in EndsFirst(q, T)..i : q[k + 1] >= T}
    IN  IF hits = {} \/ EndsFirst(q, T) >= Len(q) THEN -1
        ELSE CHOOSE i \in hits : \A j \in hits : i >= j

\* end = next((i for i in range(n - 1, -1, -1) if quals[i] >= threshold), -1)
EndsLast(q, T) ==
    LET hits == {i \in 0..(Len(q) - 1) : q[i + 1] >= T}
    IN  IF hits = {} THEN -1 ELSE CHOOSE i \in hits : \A j \in hits : i >= j

\* Mutant: the check for a valid range is missing.
TrimEndsNoRangeCheck(q, T) ==
    IF q = <<>>
    THEN <<0, 0>>
    ELSE <<EndsFirst(q, T), EndsLast(q, T) + 1>>

\* Mutant: the inclusive end is returned as it is.
TrimEndsInclusiveEnd(q, T) ==
    IF q = <<>>
    THEN <<0, 0>>
    ELSE LET n     == Len(q)
             start == EndsFirst(q, T)
             end   == EndsLast(q, T)
         IN  IF start >= n \/ end < 0 \/ end < start
             THEN <<0, 0>>
             ELSE <<start, end>>

trim_ends(q, T) ==
    IF q = <<>>
    THEN <<0, 0>>
    ELSE LET n     == Len(q)
             start == EndsFirst(q, T)
             end   == EndsLast(q, T)
         IN  IF start >= n \/ end < 0 \/ end < start
             THEN <<0, 0>>
             ELSE <<start, end + 1>>

\* ------------------------------------------------------------------------
\* trim.py: apply_trim
\* ------------------------------------------------------------------------

\* Mutant: an unknown method name falls back to the default algorithm.
ApplyTrimDefaultMott(s, q, m, T) ==
    LET r == IF m = "ends" THEN trim_ends(q, T) ELSE trim_mott(q, T)
    IN  [raised |-> "none",
         ran    |-> IF m = "ends" THEN "ends" ELSE "mott",
         ret    |-> <<PySlice(s, r[1], r[2]), PySlice(q, r[1], r[2]), r[1], r[2]>>]

\* Mutant: a window that starts at a G is shortened by that base.
ApplyTrimSkipsLeadingG(s, q, m, T) ==
    IF m \notin {"mott", "ends"}
    THEN [raised |-> "ValueError", ran |-> "none", ret |-> <<>>]
    ELSE LET r == IF m = "mott" THEN trim_mott(q, T) ELSE trim_ends(q, T)
             start == IF r[1] < r[2] /\ r[1] < Len(s) /\ s[r[1] + 1] = "G"
                      THEN r[1] + 1 ELSE r[1]
         IN  [raised |-> "none", ran |-> m,
              ret |-> <<PySlice(s, start, r[2]), PySlice(q, start, r[2]), start, r[2]>>]

\* What a call returns (ret), raises (raised) and which algorithm it ran.
apply_trim(s, q, m, T) ==
    IF m = "mott"
    THEN LET r == trim_mott(q, T)
         IN  [raised |-> "none", ran |-> "mott",
              ret |-> <<PySlice(s, r[1], r[2]), PySlice(q, r[1], r[2]), r[1], r[2]>>]
    ELSE IF m = "ends"
    THEN LET r == trim_ends(q, T)
         IN  [raised |-> "none", ran |-> "ends",
              ret |-> <<PySlice(s, r[1], r[2]), PySlice(q, r[1], r[2]), r[1], r[2]>>]
    ELSE [raised |-> "ValueError", ran |-> "none", ret |-> <<>>]

\* ------------------------------------------------------------------------
\* ambiguous_calling.py: floats as exact rationals <<num, den>>, den > 0
\* ------------------------------------------------------------------------

RLt(a, b) == a[1] * b[2] < b[1] * a[2]

RLe(a, b) == a[1] * b[2] <= b[1] * a[2]

RGe(a, b) == RLe(b, a)

\* ------------------------------------------------------------------------
\* ambiguous_calling.py: AmbiguousCallingConfig
\* ------------------------------------------------------------------------

\* The defaults of the dataclass.
DefaultConfig ==
    [q_min_noise            |-> 12,
     snr_min                |-> <<40, 10>>,
     spr_noise_max          |-> <<20, 100>>,
     spr_het_low            |-> <<33, 100>>,
     spr_het_high           |-> <<67, 100>>,
     spr_unbalanced         |-> <<85, 100>>,
     q_confident            |-> 30,
     q_ambig                |-> 20,
     clonal_context         |-> TRUE,
     peak_spacing_tolerance |-> <<20, 100>>,
     peak_window            |-> 3]

\* ------------------------------------------------------------------------
\* ambiguous_calling.py: AmbiguousBaseCaller
\* ------------------------------------------------------------------------

\* str.upper() on the one-character strings the model draws.
Upper(c) ==
    CASE c = "a" -> "A"
      [] c = "c" -> "C"
      [] c = "g" -> "G"
      [] c = "t" -> "T"
      [] c = "n" -> "N"
      [] OTHER   -> c

\* IUPAC_CODES: the dict as a set of <<key, value>> pairs.
IUPAC_CODES ==
    {<<{"A", "G"}, "R">>,
     <<{"C", "T"}, "Y">>,
     <<{"G", "C"}, "S">>,
     <<{"A", "T"}, "W">>,
     <<{"G", "T"}, "K">>,
     <<{"A", "C"}, "M">>}

\* Mutant: the table is keyed by the ordered pair, as its entries are written.
GetIupacOrdered(base1, base2) ==
    CASE <<Upper(base1), Upper(base2)>> = <<"A", "G">> -> "R"
      [] <<Upper(base1), Upper(base2)>> = <<"C", "T">> -> "Y"
      [] <<Upper(base1), Upper(base2)>> = <<"G", "C">> -> "S"
      [] <<Upper(base1), Upper(base2)>> = <<"A", "T">> -> "W"
      [] <<Upper(base1), Upper(base2)>> = <<"G", "T">> -> "K"
      [] <<Upper(base1), Upper(base2)>> = <<"A", "C">> -> "M"
      [] OTHER -> "N"

\* IUPAC_CODES.get(frozenset([base1.upper(), base2.upper()]), 'N')
_get_iupac_code(base1, base2) ==
    LET base_set == {Upper(base1), Upper(base2)}
        found    == {e \in IUPAC_CODES : e[1] = base_set}
    IN  IF found = {} THEN "N" ELSE (CHOOSE e \in found : TRUE)[2]

\* allele_frac = H1 / total_signal if total_signal > 0 else 0.0
AlleleFrac(H1, H2) ==
    IF H1 + H2 > 0 THEN <<H1, H1 + H2>> ELSE <<0, 1>>

\* Mutant: rule 4 is tested before rule 2.
ApplyCriteriaRule4First(cfg, b1, b2, H1, H2, spr, snr, quality) ==
    LET allele_frac == AlleleFrac(H1, H2)
    IN  IF quality < cfg.q_min_noise \/ RLt(snr, cfg.snr_min)
        THEN <<"N", "N", allele_frac, <<"low_quality">> >>
        ELSE IF /\ RLe(cfg.spr_het_low, spr)
                /\ RLe(spr, cfg.spr_het_high)
                /\ quality >= cfg.q_ambig
                /\ RGe(snr, cfg.snr_min)
        THEN <<_get_iupac_code(b1, b2), "ambiguous", allele_frac, <<"heterozygous">> >>
        ELSE IF quality >= cfg.q_confident /\ RLt(spr, cfg.spr_noise_max)
        THEN <<b1, "single", allele_frac, <<>> >>
        ELSE IF /\ RLe(cfg.spr_noise_max, spr)
                /\ RLt(spr, cfg.spr_het_low)
                /\ quality >= cfg.q_ambig
        THEN IF cfg.clonal_context
             THEN <<b1, "single", allele_frac, <<"minor_secondary">> >>
             ELSE <<_get_iupac_code(b1, b2), "ambiguous", allele_frac, <<>> >>
        ELSE IF /\ RLt(cfg.spr_het_high, spr)
                /\ RLt(spr, cfg.spr_unbalanced)
                /\ quality >= cfg.q_ambig
        THEN IF ~cfg.clonal_context
             THEN <<_get_iupac_code(b1, b2), "ambiguous", allele_frac,
                    <<"unbalanced_mixture">> >>
             ELSE <<b1, "single", allele_frac, <<"uncertain_mixture">> >>
        ELSE IF RGe(spr, cfg.spr_unbalanced)
        THEN <<"N", "N", allele_frac, <<"unclear_primary">> >>
        ELSE <<b1, "single", allele_frac, <<>> >>

\* Mutant: rule 1 needs both the low quality and the low snr.
ApplyCriteriaRule1And(cfg, b1, b2, H1, H2, spr, snr, quality) ==
    LET allele_frac == AlleleFrac(H1, H2)
    IN  \* Rule 1
        IF quality < cfg.q_min_noise /\ RLt(snr, cfg.snr_min)
        THEN <<"N", "N", allele_frac, <<"low_quality">> >>
        ELSE IF quality >= cfg.q_confident /\ RLt(spr, cfg.spr_noise_max)
        THEN <<b1, "single", allele_frac, <<>> >>
        ELSE IF /\ RLe(cfg.spr_noise_max, spr)
                /\ RLt(spr, cfg.spr_het_low)
                /\ quality >= cfg.q_ambig
        THEN IF cfg.clonal_context
             THEN <<b1, "single", allele_frac, <<"minor_secondary">> >>
             ELSE <<_get_iupac_code(b1, b2), "ambiguous", allele_frac, <<>> >>
        ELSE IF /\ RLe(cfg.spr_het_low, spr)
                /\ RLe(spr, cfg.spr_het_high)
                /\ quality >= cfg.q_ambig
                /\ RGe(snr, cfg.snr_min)
        THEN <<_get_iupac_code(b1, b2), "ambiguous", allele_frac, <<"heterozygous">> >>
        ELSE IF /\ RLt(cfg.spr_het_high, spr)
                /\ RLt(spr, cfg.spr_unbalanced)
                /\ quality >= cfg.q_ambig
        THEN IF ~cfg.clonal_context
             THEN <<_get_iupac_code(b1, b2), "ambiguous", allele_frac,
                    <<"unbalanced_mixture">> >>
             ELSE <<b1, "single", allele_frac, <<"uncertain_mixture">> >>
        ELSE IF RGe(spr, cfg.spr_unbalanced)
        THEN <<"N", "N", allele_frac, <<"unclear_primary">> >>
        ELSE <<b1, "single", allele_frac, <<>> >>

\* Mutant: rule 4 excludes spr equal to spr_het_high.
ApplyCriteriaRule4Strict(cfg, b1, b2, H1, H2, spr, snr, quality) ==
    LET allele_frac == AlleleFrac(H1, H2)
    IN  \* Rule 1
        IF quality < cfg.q_min_noise \/ RLt(snr, cfg.snr_min)
        THEN <<"N", "N", allele_frac, <<"low_quality">> >>
        ELSE IF quality >= cfg.q_confident /\ RLt(spr, cfg.spr_noise_max)
        THEN <<b1, "single", allele_frac, <<>> >>
        ELSE IF /\ RLe(cfg.spr_noise_max, spr)
                /\ RLt(spr, cfg.spr_het_low)
                /\ quality >= cfg.q_ambig
        THEN IF cfg.clonal_context
             THEN <<b1, "single", allele_frac, <<"minor_secondary">> >>
             ELSE <<_get_iupac_code(b1, b2), "ambiguous", allele_frac, <<>> >>
        ELSE IF /\ RLe(cfg.spr_het_low, spr)
                /\ RLt(spr, cfg.spr_het_high)
                /\ quality >= cfg.q_ambig
                /\ RGe(snr, cfg.snr_min)
        THEN <<_get_iupac_code(b1, b2), "ambiguous", allele_frac, <<"heterozygous">> >>
        ELSE IF /\ RLt(cfg.spr_het_high, spr)
                /\ RLt(spr, cfg.spr_unbalanced)
                /\ quality >= cfg.q_ambig
        THEN IF ~cfg.clonal_context
             THEN <<_get_iupac_code(b1, b2), "ambiguous", allele_frac,
                    <<"unbalanced_mixture">> >>
             ELSE <<b1, "single", allele_frac, <<"uncertain_mixture">> >>
        ELSE IF RGe(spr, cfg.spr_unbalanced)
        THEN <<"N", "N", allele_frac, <<"unclear_primary">> >>
        ELSE <<b1, "single", allele_frac, <<>> >>

\* Mutant: rule 5 treats the context as rule 3 does.
ApplyCriteriaRule5Clonal(cfg, b1, b2, H1, H2, spr, snr, quality) ==
    LET allele_frac == AlleleFrac(H1, H2)
    IN  \* Rule 1
        IF quality < cfg.q_min_noise \/ RLt(snr, cfg.snr_min)
        THEN <<"N", "N", allele_frac, <<"low_quality">> >>
        ELSE IF quality >= cfg.q_confident /\ RLt(spr, cfg.spr_noise_max)
        THEN <<b1, "single", allele_frac, <<>> >>
        ELSE IF /\ RLe(cfg.spr_noise_max, spr)
                /\ RLt(spr, cfg.spr_het_low)
                /\ quality >= cfg.q_ambig
        THEN IF cfg.clonal_context
             THEN <<b1, "single", allele_frac, <<"minor_secondary">> >>
             ELSE <<_get_iupac_code(b1, b2), "ambiguous", allele_frac, <<>> >>
        ELSE IF /\ RLe(cfg.spr_het_low, spr)
                /\ RLe(spr, cfg.spr_het_high)
                /\ quality >= cfg.q_ambig
                /\ RGe(snr, cfg.snr_min)
        THEN <<_get_iupac_code(b1, b2), "ambiguous", allele_frac, <<"heterozygous">> >>
        ELSE IF /\ RLt(cfg.spr_het_high, spr)
                /\ RLt(spr, cfg.spr_unbalanced)
                /\ quality >= cfg.q_ambig
        THEN IF cfg.clonal_context
             THEN <<_get_iupac_code(b1, b2), "ambiguous", allele_frac,
                    <<"unbalanced_mixture">> >>
             ELSE <<b1, "single", allele_frac, <<"uncertain_mixture">> >>
        ELSE IF RGe(spr, cfg.spr_unbalanced)
        THEN <<"N", "N", allele_frac, <<"unclear_primary">> >>
        ELSE <<b1, "single", allele_frac, <<>> >>

\* _apply_calling_criteria with self.config = cfg: the tuple
\* (called_base, call_mode, allele_fraction, flags) it returns.
_apply_calling_criteria(cfg, b1, b2, H1, H2, spr, snr, quality) ==
    LET allele_frac == AlleleFrac(H1, H2)
    IN  \* Rule 1
        IF quality < cfg.q_min_noise \/ RLt(snr, cfg.snr_min)
        THEN <<"N", "N", allele_frac, <<"low_quality">> >>
        \* Rule 2
        ELSE IF quality >= cfg.q_confident /\ RLt(spr, cfg.spr_noise_max)
        THEN <<b1, "single", allele_frac, <<>> >>
        \* Rule 3
        ELSE IF /\ RLe(cfg.spr_noise_max, spr)
                /\ RLt(spr, cfg.spr_het_low)
                /\ quality >= cfg.q_ambig
        THEN IF cfg.clonal_context
             THEN <<b1, "single", allele_frac, <<"minor_secondary">> >>
             ELSE <<_get_iupac_code(b1, b2), "ambiguous", allele_frac, <<>> >>
        \* Rule 4
        ELSE IF /\ RLe(cfg.spr_het_low, spr)
                /\ RLe(spr, cfg.spr_het_high)
                /\ quality >= cfg.q_ambig
                /\ RGe(snr, cfg.snr_min)
        THEN <<_get_iupac_code(b1, b2), "ambiguous", allele_frac, <<"heterozygous">> >>
        \* Rule 5
        ELSE IF /\ RLt(cfg.spr_het_high, spr)
                /\ RLt(spr, cfg.spr_unbalanced)
                /\ quality >= cfg.q_ambig
        THEN IF ~cfg.clonal_context
             THEN <<_get_iupac_code(b1, b2), "ambiguous", allele_frac,
                    <<"unbalanced_mixture">> >>
             ELSE <<b1, "single", allele_frac, <<"uncertain_mixture">> >>
        \* Rule 6
        ELSE IF RGe(spr, cfg.spr_unbalanced)
        THEN <<"N", "N", allele_frac, <<"unclear_primary">> >>
        \* Final fallback
        ELSE <<b1, "single", allele_frac, <<>> >>

\* Mutant: rule 2 does not look at the quality.
CriteriaReturnLineRule2AnyQuality(cfg, spr, snr, quality) ==
    IF quality < cfg.q_min_noise \/ RLt(snr, cfg.snr_min)
    THEN 360
    ELSE IF RLt(spr, cfg.spr_noise_max)
    THEN 364
    ELSE IF /\ RLe(cfg.spr_noise_max, spr)
            /\ RLt(spr, cfg.spr_het_low)
            /\ quality >= cfg.q_ambig
    THEN IF cfg.clonal_context THEN 373 ELSE 377
    ELSE IF /\ RLe(cfg.spr_het_low, spr)
            /\ RLe(spr, cfg.spr_het_high)
            /\ quality >= cfg.q_ambig
            /\ RGe(snr, cfg.snr_min)
    THEN 386
    ELSE IF /\ RLt(cfg.spr_het_high, spr)
            /\ RLt(spr, cfg.spr_unbalanced)
            /\ quality >= cfg.q_ambig
    THEN IF ~cfg.clonal_context THEN 396 ELSE 400
    ELSE IF RGe(spr, cfg.spr_unbalanced)
    THEN 407
    ELSE 410

\* The line of _apply_calling_criteria whose return statement a call with
\* self.config = cfg executes.
CriteriaReturnLine(cfg, spr, snr, quality) ==
    IF quality < cfg.q_min_noise \/ RLt(snr, cfg.snr_min)
    THEN 360
    ELSE IF quality >= cfg.q_confident /\ RLt(spr, cfg.spr_noise_max)
    THEN 364
    ELSE IF /\ RLe(cfg.spr_noise_max, spr)
            /\ RLt(spr, cfg.spr_het_low)
            /\ quality >= cfg.q_ambig
    THEN IF cfg.clonal_context THEN 373 ELSE 377
    ELSE IF /\ RLe(cfg.spr_het_low, spr)
            /\ RLe(spr, cfg.spr_het_high)
            /\ quality >= cfg.q_ambig
            /\ RGe(snr, cfg.snr_min)
    THEN 386
    ELSE IF /\ RLt(cfg.spr_het_high, spr)
            /\ RLt(spr, cfg.spr_unbalanced)
            /\ quality >= cfg.q_ambig
    THEN IF ~cfg.clonal_context THEN 396 ELSE 400
    ELSE IF RGe(spr, cfg.spr_unbalanced)
    THEN 407
    ELSE 410

\* ------------------------------------------------------------------------
\* ambiguous_calling.py: PeakIntensityExtractor and the calls per position
\* ------------------------------------------------------------------------

\* The channels in the order of the list ['A', 'C', 'G', 'T'].
ChannelOrder == <<"A", "C", "G", "T">>

\* The keys of the dict of intensities.
Channels == {ChannelOrder[i] : i \in 1..4}

\* np.sum of an array of whole-valued samples.
RECURSIVE SeqSum(_)
SeqSum(s) == IF s = <<>> THEN 0 ELSE Head(s) + SeqSum(Tail(s))

\* Mutant: a position beyond the peak locations reads the last of them.
GetIntensitiesClampPosition(traces, position, window) ==
    LET peak_locations == traces.peak_locations
    IN  IF Len(peak_locations) = 0
        THEN [base \in Channels |-> 0]
        ELSE LET trace_pos == peak_locations[Min(position, Len(peak_locations) - 1) + 1]
             IN  [base \in Channels |->
                    LET trace == traces[base]
                        start == Max(0, trace_pos - window)
                        end   == Min(Len(trace), trace_pos + window + 1)
                    IN  SeqSum(PySlice(trace, start, end))]

\* get_intensities_at_position(traces, position, window): the dict as a
\* function of the channel.
get_intensities_at_position(traces, position, window) ==
    LET peak_locations == traces.peak_locations
    IN  IF Len(peak_locations) = 0 \/ position >= Len(peak_locations)
        THEN [base \in Channels |-> 0]
        ELSE LET trace_pos == peak_locations[position + 1]
             IN  [base \in Channels |->
                    LET trace == traces[base]
                        start == Max(0, trace_pos - window)
                        end   == Min(Len(trace), trace_pos + window + 1)
                    IN  SeqSum(PySlice(trace, start, end))]

\* sorted(intensities.items(), key=lambda x: x[1], reverse=True): the sort is
\* stable, so equal intensities stay in the order A, C, G, T.
SortedBases(intensities) ==
    LET before(i) == {j \in 1..4 :
                        \/ intensities[ChannelOrder[j]] > intensities[ChannelOrder[i]]
                        \/ /\ intensities[ChannelOrder[j]] = intensities[ChannelOrder[i]]
                           /\ j < i}
    IN  [k \in 1..4 |->
            LET i == CHOOSE i \in 1..4 : Cardinality(before(i)) = k - 1
            IN  <<ChannelOrder[i], intensities[ChannelOrder[i]]>>]

\* np.median of a non-empty list of whole-valued samples, as a rational.
Median(samples) ==
    LET sorted == SortSeq(samples, LAMBDA x, y : x < y)
        n      == Len(sorted)
    IN  IF n % 2 = 1
        THEN <<sorted[(n + 1) \div 2], 1>>
        ELSE <<sorted[n \div 2] + sorted[n \div 2 + 1], 2>>

\* The samples _calculate_snr takes from one channel.
NoiseSamplesOf(trace, trace_pos) ==
    LET before_start == Max(0, trace_pos - 20)
        before_end   == Max(0, trace_pos - 5)
        after_start  == Min(Len(trace), trace_pos + 5)
        after_end    == Min(Len(trace), trace_pos + 20)
    IN  (IF before_end > before_start
         THEN PySlice(trace, before_start, before_end) ELSE <<>>)
        \o (IF after_end > after_start
            THEN PySlice(trace, after_start, after_end) ELSE <<>>)

\* _calculate_snr(traces, position, signal)
_calculate_snr(traces, position, signal) ==
    LET peak_locations == traces.peak_locations
    IN  IF Len(peak_locations) = 0 \/ position >= Len(peak_locations)
        THEN <<0, 1>>
        ELSE LET trace_pos == peak_locations[position + 1]
                 noise_samples ==
                     NoiseSamplesOf(traces["A"], trace_pos)
                     \o NoiseSamplesOf(traces["C"], trace_pos)
                     \o NoiseSamplesOf(traces["G"], trace_pos)
                     \o NoiseSamplesOf(traces["T"], trace_pos)
             IN  IF noise_samples # <<>>
                 THEN LET noise == Median(noise_samples)
                      IN  IF noise[1] > 0
                          THEN <<signal * noise[2], noise[1]>>
                          ELSE <<0, 1>>
                 ELSE <<0, 1>>

\* _call_position(position, original_base, quality, traces) with
\* self.config = cfg: the BaseCall as a record.
_call_position(cfg, position, original_base, quality, traces) ==
    LET intensities  == get_intensities_at_position(traces, position, cfg.peak_window)
        sorted_bases == SortedBases(intensities)
        b1  == sorted_bases[1][1]
        H1  == sorted_bases[1][2]
        b2  == sorted_bases[2][1]
        H2  == sorted_bases[2][2]
        spr == IF H1 > 0 THEN <<H2, H1>> ELSE <<0, 1>>
        snr == _calculate_snr(traces, position, H1)
        res == _apply_calling_criteria(cfg, b1, b2, H1, H2, spr, snr, quality)
    IN  [position            |-> position,
         called_base         |-> res[1],
         primary_base        |-> b1,
         secondary_base      |-> b2,
         primary_intensity   |-> H1,
         secondary_intensity |-> H2,
         spr                 |-> spr,
         snr                 |-> snr,
         quality             |-> quality,
         call_mode           |-> res[2],
         allele_fraction     |-> res[3],
         flags               |-> res[4]]

\* qualities[pos] if pos < len(qualities) else 0
QualityAt(qualities, pos) ==
    IF pos < Len(qualities) THEN qualities[pos + 1] ELSE 0

\* Mutant: a quality equal to q_confident still counts as moderate.
FallbackModerateInclusive(cfg, sequence, qualities) ==
    [i \in 1..Len(sequence) |->
        LET pos  == i - 1
            base == sequence[i]
            qual == QualityAt(qualities, pos)
            low  == qual < cfg.q_min_noise
            high == qual > cfg.q_confident
        IN  [position            |-> pos,
             called_base         |-> IF low THEN "N" ELSE base,
             primary_base        |-> base,
             secondary_base      |-> "N",
             primary_intensity   |-> 0,
             secondary_intensity |-> 0,
             spr                 |-> <<0, 1>>,
             snr                 |-> <<0, 1>>,
             quality             |-> qual,
             call_mode           |-> IF low THEN "N" ELSE "single",
             allele_fraction     |-> <<1, 1>>,
             flags               |-> IF low THEN <<"low_quality", "no_trace_data">>
                                     ELSE IF high THEN <<"no_trace_data">>
                                     ELSE <<"moderate_quality", "no_trace_data">>]]

\* _fallback_calling(sequence, qualities) with self.config = cfg: the list
\* of BaseCall records.
_fallback_calling(cfg, sequence, qualities) ==
    [i \in 1..Len(sequence) |->
        LET pos  == i - 1
            base == sequence[i]
            qual == QualityAt(qualities, pos)
            low  == qual < cfg.q_min_noise
            high == qual >= cfg.q_confident
        IN  [position            |-> pos,
             called_base         |-> IF low THEN "N" ELSE base,
             primary_base        |-> base,
             secondary_base      |-> "N",
             primary_intensity   |-> 0,
             secondary_intensity |-> 0,
             spr                 |-> <<0, 1>>,
             snr                 |-> <<0, 1>>,
             quality             |-> qual,
             call_mode           |-> IF low THEN "N" ELSE "single",
             allele_fraction     |-> <<1, 1>>,
             flags               |-> IF low THEN <<"low_quality", "no_trace_data">>
                                     ELSE IF high THEN <<"no_trace_data">>
                                     ELSE <<"moderate_quality", "no_trace_data">>]]

\* Mutant: the positions handed to _call_position are counted from 1.
CallBasesFromOne(cfg, traces, sequence, qualities) ==
    IF DOMAIN traces = {}
    THEN _fallback_calling(cfg, sequence, qualities)
    ELSE [i \in 1..Len(sequence) |->
            _call_position(cfg, i, sequence[i], QualityAt(qualities, i - 1), traces)]

\* call_bases(ab1_path, sequence, qualities) with self.config = cfg, where
\* traces is what extract_traces(ab1_path) returned (<<>> for None).
call_bases(cfg, traces, sequence, qualities) ==
    IF DOMAIN traces = {}
    THEN _fallback_calling(cfg, sequence, qualities)
    ELSE [i \in 1..Len(sequence) |->
            _call_position(cfg, i - 1, sequence[i], QualityAt(qualities, i - 1), traces)]

\* base_calls_to_sequence(base_calls): the called symbols joined in order.
base_calls_to_sequence(base_calls) ==
    [i \in 1..Len(base_calls) |-> base_calls[i].called_base]

\* ','.join(flags) if flags else ''
RECURSIVE JoinFlags(_)
JoinFlags(flags) ==
    IF flags = <<>> THEN ""
    ELSE IF Len(flags) = 1 THEN flags[1]
    ELSE flags[1] \o "," \o JoinFlags(Tail(flags))

\* base_calls_to_annotations(base_calls): the list of annotation dicts as
\* records. The intensities are whole-valued floats.
base_calls_to_annotations(base_calls) ==
    [i \in 1..Len(base_calls) |->
        LET bc == base_calls[i]
        IN  [position            |-> bc.position,
             called_base         |-> bc.called_base,
             primary_base        |-> bc.primary_base,
             secondary_base      |-> bc.secondary_base,
             primary_intensity   |-> Round(<<bc.primary_intensity, 1>>, 2),
             secondary_intensity |-> Round(<<bc.secondary_intensity, 1>>, 2),
             spr                 |-> Round(bc.spr, 4),
             snr                 |-> Round(bc.snr, 2),
             quality             |-> bc.quality,
             call_mode           |-> bc.call_mode,
             allele_fraction     |-> Round(bc.allele_fraction, 4),
             flags               |-> JoinFlags(bc.flags)]]

\* ------------------------------------------------------------------------
\* Calls of the AmbiguousBaseCaller methods
\* ------------------------------------------------------------------------

\* A configuration with thresholds that make the rules' conditions overlap:
\* rule 2 reaches into the heterozygous range and rule 4 beyond spr_unbalanced.
TunedConfig ==
    [DefaultConfig EXCEPT !.q_min_noise    = 15,
                          !.snr_min        = <<5, 1>>,
                          !.spr_noise_max  = <<50, 100>>,
                          !.spr_het_high   = <<90, 100>>,
                          !.q_confident    = 25,
                          !.q_ambig        = 28]

\* A configuration with other thresholds in the order of the defaults.
StrictConfig ==
    [DefaultConfig EXCEPT !.q_min_noise    = 15,
                          !.snr_min        = <<5, 1>>,
                          !.spr_noise_max  = <<32, 100>>,
                          !.spr_het_low    = <<50, 100>>,
                          !.spr_het_high   = <<68, 100>>,
                          !.spr_unbalanced = <<90, 100>>,
                          !.q_confident    = 29,
                          !.q_ambig        = 25]

\* The configuration of --spr-het-low 0.9 --spr-het-high 0.5: the bounds of
\* the heterozygous range are inverted.
InvertedConfig ==
    [DefaultConfig EXCEPT !.spr_het_low  = <<90, 100>>,
                          !.spr_het_high = <<50, 100>>]

\* Configurations drawn: each of the four, in clonal and in mixed context.
ConfigValues ==
    {[c EXCEPT !.clonal_context = b] :
        c \in {DefaultConfig, TunedConfig, StrictConfig, InvertedConfig}, b \in BOOLEAN}

\* Channel symbols drawn for b1 and b2.
BaseValues == {"A", "C", "G", "T"}

\* Symbols drawn for the IUPAC lookup: the bases, two of them in lower case,
\* the no-call symbol and a symbol that is no base.
SymbolValues == {"A", "C", "G", "T", "a", "g", "N", "X"}

\* (H1, H2) drawn: no signal, and a primary of 100 with three secondaries.
IntensityValues == {<<0, 0>>, <<100, 10>>, <<100, 50>>, <<100, 90>>}

\* spr drawn: below, at and above each threshold of the configurations.
SprValues ==
    {<<n, 100>> : n \in {0, 19, 20, 32, 33, 50, 67, 68, 84, 85, 90, 100}}

\* snr drawn: below, at and above each snr_min.
SnrValues == {<<0, 1>>, <<39, 10>>, <<4, 1>>, <<5, 1>>, <<10, 1>>}

\* quality drawn: below, at and above each quality threshold.
QualityValues == {0, 11, 12, 15, 19, 20, 25, 28, 29, 30, 40}

\* A configuration without a floor on the snr.
NoSnrFloorConfig == [DefaultConfig EXCEPT !.snr_min = <<0, 1>>]

\* A configuration that integrates one sample on each side of the peak.
NarrowWindowConfig == [DefaultConfig EXCEPT !.peak_window = 1]

\* Configurations drawn for the calls per position and per read.
ReadConfigValues ==
    {DefaultConfig, [DefaultConfig EXCEPT !.clonal_context = FALSE],
     StrictConfig, NoSnrFloorConfig, NarrowWindowConfig}

\* Samples drawn at the two ends of a channel: ABIF samples are signed.
PeakSampleValues == {-5, 0, 5, 10}

\* Samples drawn at the far end of all four channels.
TailSampleValues == {-1, 0, 2}

\* Length of the traces drawn: a peak at its first sample has a noise window
\* after it, a peak at its last sample has one before it.
TraceLen == 7

\* One channel: a sample at each end, the baseline in between.
TraceOf(first, last) ==
    [k \in 1..TraceLen |-> IF k = 1 THEN first ELSE IF k = TraceLen THEN last ELSE 0]

\* Peak-location maps drawn: none, one entry, two entries.
PeakLocationValues == {<<>>, <<0>>, <<TraceLen - 1>>, <<0, TraceLen - 1>>}

\* Trace bundles drawn.
TraceValues ==
    {[A |-> TraceOf(a, n), C |-> TraceOf(c, n), G |-> TraceOf(g, n),
      T |-> TraceOf(t, n), peak_locations |-> pl] :
        a \in PeakSampleValues, c \in PeakSampleValues, g \in PeakSampleValues,
        t \in PeakSampleValues, n \in TailSampleValues, pl \in PeakLocationValues}

\* Positions drawn: one inside every non-empty peak-location map, one beyond
\* the one-entry maps.
PositionValues == {0, 1}

\* Qualities drawn for a position of a read.
ReadQualityValues == {11, 12, 29, 30}

InitCaller ==
    /\ cfn = "none"
    /\ config = DefaultConfig
    /\ cargs = <<>>
    /\ cret = <<>>

\* AmbiguousBaseCaller(config)._apply_calling_criteria(b1, b2, H1, H2, spr, snr, quality)
ApplyCallingCriteriaCall ==
    /\ cfn = "none"
    /\ \E cfg \in ConfigValues, b1 \in BaseValues, b2 \in BaseValues,
          H \in IntensityValues, spr \in SprValues, snr \in SnrValues,
          quality \in QualityValues :
        /\ cfn' = "_apply_calling_criteria"
        /\ config' = cfg
        /\ cargs' = [b1 |-> b1, b2 |-> b2, H1 |-> H[1], H2 |-> H[2],
                     spr |-> spr, snr |-> snr, quality |-> quality]
        /\ cret' = _apply_calling_criteria(cfg, b1, b2, H[1], H[2], spr, snr, quality)
    /\ UNCHANGED <<trimVars, qcVars, ioVars, cliVars>>

\* AmbiguousBaseCaller(config)._get_iupac_code(base1, base2)
GetIupacCodeCall ==
    /\ cfn = "none"
    /\ \E cfg \in ConfigValues, base1 \in SymbolValues, base2 \in SymbolValues :
        /\ cfn' = "_get_iupac_code"
        /\ config' = cfg
        /\ cargs' = [base1 |-> base1, base2 |-> base2]
        /\ cret' = _get_iupac_code(base1, base2)
    /\ UNCHANGED <<trimVars, qcVars, ioVars, cliVars>>

\* AmbiguousBaseCaller(config)._call_position(position, original_base, quality, traces)
CallPositionCall ==
    /\ cfn = "none"
    /\ \E cfg \in ReadConfigValues, position \in PositionValues,
          quality \in ReadQualityValues, traces \in TraceValues :
        /\ cfn' = "_call_position"
        /\ config' = cfg
        /\ cargs' = [position |-> position, original_base |-> "A",
                     quality |-> quality, traces |-> traces]
        /\ cret' = _call_position(cfg, position, "A", quality, traces)
    /\ UNCHANGED <<trimVars, qcVars, ioVars, cliVars>>

\* AmbiguousBaseCaller(config).call_bases(ab1_path, sequence, qualities) for
\* a file extract_traces returns None for.
CallBasesNoTracesCall ==
    /\ cfn = "none"
    /\ \E cfg \in ReadConfigValues, sequence \in SeqsUpTo(SeqSymbols, MaxLen),
          qualities \in SeqsUpTo(ReadQualityValues, MaxLen) :
        /\ cfn' = "call_bases"
        /\ config' = cfg
        /\ cargs' = [traces |-> <<>>, sequence |-> sequence, qualities |-> qualities]
        /\ cret' = call_bases(cfg, <<>>, sequence, qualities)
    /\ UNCHANGED <<trimVars, qcVars, ioVars, cliVars>>

\* Longest read drawn for call_bases with trace data.
MaxCalls == 2

\* Trace bundles drawn for call_bases: peaks in the A and G channels.
ReadTraceValues ==
    {[A |-> TraceOf(a, n), C |-> TraceOf(0, n), G |-> TraceOf(g, n),
      T |-> TraceOf(0, 0), peak_locations |-> pl] :
        a \in PeakSampleValues, g \in PeakSampleValues, n \in TailSampleValues,
        pl \in {<<0>>, <<0, TraceLen - 1>>}}

\* Configurations drawn for call_bases with trace data: clonal and mixed
\* context, with and without the signal-to-noise floor.
TraceConfigValues ==
    {DefaultConfig, [DefaultConfig EXCEPT !.clonal_context = FALSE], NoSnrFloorConfig}

\* AmbiguousBaseCaller(config).call_bases(ab1_path, sequence, qualities) for
\* a file extract_traces returns traces for.
CallBasesWithTracesCall ==
    /\ cfn = "none"
    /\ \E cfg \in TraceConfigValues, traces \in ReadTraceValues,
          sequence \in SeqsUpTo(SeqSymbols, MaxCalls),
          qualities \in SeqsUpTo({11, 30}, MaxCalls) :
        /\ cfn' = "call_bases"
        /\ config' = cfg
        /\ cargs' = [traces |-> traces, sequence |-> sequence, qualities |-> qualities]
        /\ cret' = call_bases(cfg, traces, sequence, qualities)
    /\ UNCHANGED <<trimVars, qcVars, ioVars, cliVars>>

\* The caller has used the result; the next call can be made.
CallerDone ==
    /\ cfn # "none"
    /\ cfn' = "none"
    /\ config' = DefaultConfig
    /\ cargs' = <<>>
    /\ cret' = <<>>
    /\ UNCHANGED <<trimVars, qcVars, ioVars, cliVars>>

\* ------------------------------------------------------------------------
\* qc.py
\* ------------------------------------------------------------------------

\* Mutant: a base below the threshold does not end the running stretch.
HqStepNoReset(st, q, threshold_) ==
    IF q >= threshold_
    THEN [max_len     |-> Max(st.max_len, st.current_len + 1),
          current_len |-> st.current_len + 1]
    ELSE st

\* One iteration of the loop of _longest_hq_stretch over the quality q.
HqStep(st, q, threshold_) ==
    IF q >= threshold_
    THEN [max_len     |-> Max(st.max_len, st.current_len + 1),
          current_len |-> st.current_len + 1]
    ELSE [max_len     |-> st.max_len,
          current_len |-> 0]

\* The loop of _longest_hq_stretch over qs, entered in state st.
RECURSIVE HqLoop(_, _, _)
HqLoop(st, qs, threshold_) ==
    IF qs = <<>> THEN st
    ELSE HqLoop(HqStep(st, Head(qs), threshold_), Tail(qs), threshold_)

\* _longest_hq_stretch(quals, threshold)
_longest_hq_stretch(quals_, threshold_) ==
    IF quals_ = <<>> THEN 0
    ELSE HqLoop([max_len |-> 0, current_len |-> 0], quals_, threshold_).max_len

\* Mutant: a quality equal to v is not counted.
CountAtLeastStrict(qs, v) == Cardinality({k \in 1..Len(qs) : qs[k] > v})

\* The number of the qualities of qs that are at least v: the sum of the
\* array q_array >= v.
CountAtLeast(qs, v) == Cardinality({k \in 1..Len(qs) : qs[k] >= v})

\* seq.upper().count(c) for a one-character string c.
CountUpper(s, c) == Cardinality({k \in 1..Len(s) : Upper(s[k]) = c})

\* Mutant: a read passes only when it is longer than min_length.
PassedMinlenStrict(trimmed_length, min_length) ==
    IF trimmed_length > min_length THEN "yes" ELSE "no"

\* "yes" if trimmed_length >= min_length else "no"
PassedMinlen(trimmed_length, min_length) ==
    IF trimmed_length >= min_length THEN "yes" ELSE "no"

\* 10^(9 - r/10) for r = 0..9, rounded down: the digits of 10^(-r/10).
PhredErrorTable ==
    <<1000000000, 794328234, 630957344, 501187233, 398107170,
      316227766, 251188643, 199526231, 158489319, 125892541>>

\* 10 ** (-q / 10) in millionths, rounded down, for a quality q >= -30: the
\* value is exact when q is a multiple of 10 up to 60 and less than one
\* millionth too small otherwise.
PhredErrorMicro(q) ==
    LET shift == 3 + (q \div 10)
        digits == PhredErrorTable[(q % 10) + 1]
    IN  IF shift >= 10 THEN 0
        ELSE IF shift >= 0 THEN digits \div (10 ^ shift)
        ELSE digits * (10 ^ (-shift))

\* The sum of PhredErrorMicro over quals_: np.sum(10 ** (-q_array / 10))
\* lies between this sum and this sum plus len(quals_), in millionths.
ExpectedErrorsMicro(quals_) ==
    SeqSum([i \in 1..Len(quals_) |-> PhredErrorMicro(quals_[i])])

\* The digits kept do not tell on which side of a decimal tie the float sum
\* of expected errors lies: a multiple of 0.01 plus 0.005 lies between the
\* bounds of ExpectedErrorsMicro. At the lower bound the sum is exact in
\* the reals and the rounding errors of the float powers and additions
\* decide.
ExpectedErrorsUndecided(quals_) ==
    LET a == ExpectedErrorsMicro(quals_) + 5000
    IN  /\ quals_ # <<>>
        /\ \/ a % 10000 = 0
           \/ a \div 10000 < (a + Len(quals_)) \div 10000

\* round(expected_errors, 2) for fewer than 10000 qualities; where the
\* digits kept do not decide, up tells that the float lies above the tie.
ExpectedErrors(quals_, up) ==
    LET a == ExpectedErrorsMicro(quals_) + 5000
    IN  IF quals_ = <<>> THEN <<0, 100>>
        ELSE IF ExpectedErrorsUndecided(quals_)
        THEN <<((a + Len(quals_)) \div 10000) - (IF up THEN 0 ELSE 1), 100>>
        ELSE <<a \div 10000, 100>>

\* The values of up that give different results of ExpectedErrors.
ExpectedErrorsUps(quals_) ==
    IF ExpectedErrorsUndecided(quals_) THEN BOOLEAN ELSE {FALSE}

\* compute_qc_metrics(...): the dict as a record. up chooses the side of the
\* float sum of expected errors where the model's digits do not decide it.
compute_qc_metrics(sample_id, source_file, file_format, seq_, quals_, trim_start, trim_end, qthreshold, min_length, up) ==
    LET n              == Len(quals_)
        raw_length     == Len(seq_)
        trimmed_length == trim_end - trim_start
        mean_q         == IF n > 0 THEN <<SeqSum(quals_), n>> ELSE <<0, 1>>
        median_q       == IF n > 0 THEN Median(quals_) ELSE <<0, 1>>
        pct_q20        == IF n > 0 THEN <<CountAtLeast(quals_, 20), n>>
                          ELSE <<0, 1>>
        pct_q30        == IF n > 0 THEN <<CountAtLeast(quals_, 30), n>>
                          ELSE <<0, 1>>
        gc_count       == CountUpper(seq_, "G") + CountUpper(seq_, "C")
        n_count        == CountUpper(seq_, "N")
        non_n_count    == raw_length - n_count
        gc_percent     == IF non_n_count > 0 THEN <<100 * gc_count, non_n_count>>
                          ELSE <<0, 1>>
    IN  [sample_id              |-> sample_id,
         source_file            |-> source_file,
         format                 |-> file_format,
         raw_length             |-> raw_length,
         mean_q                 |-> Round(mean_q, 2),
         median_q               |-> Round(median_q, 2),
         pct_q20                |-> Round(pct_q20, 4),
         pct_q30                |-> Round(pct_q30, 4),
         gc_percent             |-> Round(gc_percent, 2),
         n_count                |-> n_count,
         expected_errors        |-> ExpectedErrors(quals_, up),
         hq_longest_stretch_len |-> _longest_hq_stretch(quals_, qthreshold),
         trim_start             |-> trim_start,
         trim_end               |-> trim_end,
         trimmed_length         |-> trimmed_length,
         passed_minlen          |-> PassedMinlen(trimmed_length, min_length)]

\* round(y, ndigits) of the float y computed for the exact value x by a sum
\* of floats and one division. When the sum is exact, y is the float nearest
\* to x. When it is not and x is a tie, the rounding errors of the sum decide
\* on which side of x the float y lies, and round gives the neighbour on
\* that side: the upper one when up is true.
RoundFloat(x, ndigits, exact, up) ==
    IF IsTie(x, ndigits) /\ ~exact
    THEN <<((x[1] * 10 ^ ndigits) \div x[2]) + (IF up THEN 1 ELSE 0), 10 ^ ndigits>>
    ELSE Round(x, ndigits)

\* np.array([m[field] for m in metrics_list]) for an integer field, as
\* rationals.
IntColumn(metrics_list, field) ==
    [i \in 1..Len(metrics_list) |-> <<metrics_list[i][field], 1>>]

\* np.array([m[field] for m in metrics_list]) for a float field.
FloatColumn(metrics_list, field) ==
    [i \in 1..Len(metrics_list) |-> metrics_list[i][field]]

\* The numerators of values over the denominator scale, which every
\* denominator of values divides.
Scaled(values, scale) ==
    [i \in 1..Len(values) |-> values[i][1] * (scale \div values[i][2])]

\* The exact mean of a non-empty array of values.
MeanOf(values, scale) == <<SeqSum(Scaled(values, scale)), scale * Len(values)>>

\* The two middle values (one for an odd length) of the sorted array.
MiddleOf(values, scale) ==
    LET sorted == SortSeq(Scaled(values, scale), LAMBDA x, y : x < y)
        n      == Len(sorted)
    IN  IF n % 2 = 1
        THEN <<(<<sorted[(n + 1) \div 2], scale>>)>>
        ELSE <<(<<sorted[n \div 2], scale>>), (<<sorted[n \div 2 + 1], scale>>)>>

\* Every value of the array is one a float holds exactly.
AllDyadic(values) == \A i \in 1..Len(values) : IsDyadic(values[i])

\* round(float(np.mean(values)), ndigits)
RoundedMean(values, scale, ndigits, up) ==
    RoundFloat(MeanOf(values, scale), ndigits, AllDyadic(values), up)

\* round(float(np.median(values)), ndigits): np.median is the mean of the
\* middle values of the sorted array.
RoundedMedian(values, scale, ndigits, up) ==
    RoundedMean(MiddleOf(values, scale), scale, ndigits, up)

\* Mutant: every read of the batch is counted as passed.
ReadsPassedCountsAll(metrics_list) == Len(metrics_list)

\* sum(m["passed_minlen"] == "yes" for m in metrics_list)
ReadsPassed(metrics_list) ==
    Cardinality({i \in 1..Len(metrics_list) : metrics_list[i].passed_minlen = "yes"})

\* Mutant: the summary of an empty batch reports that all reads passed.
EmptySummaryAllPassed ==
    [total_reads           |-> 0,
     mean_raw_length       |-> <<0, 1>>,
     median_raw_length     |-> <<0, 1>>,
     mean_trimmed_length   |-> <<0, 1>>,
     median_trimmed_length |-> <<0, 1>>,
     mean_mean_q           |-> <<0, 1>>,
     median_mean_q         |-> <<0, 1>>,
     mean_pct_q20          |-> <<0, 1>>,
     mean_pct_q30          |-> <<0, 1>>,
     mean_gc_percent       |-> <<0, 1>>,
     mean_expected_errors  |-> <<0, 1>>,
     reads_passed_minlen   |-> 0,
     reads_failed_minlen   |-> 0,
     pct_passed            |-> <<100, 1>>]

\* The dict compute_summary_stats returns for an empty list.
EmptySummary ==
    [total_reads           |-> 0,
     mean_raw_length       |-> <<0, 1>>,
     median_raw_length     |-> <<0, 1>>,
     mean_trimmed_length   |-> <<0, 1>>,
     median_trimmed_length |-> <<0, 1>>,
     mean_mean_q           |-> <<0, 1>>,
     median_mean_q         |-> <<0, 1>>,
     mean_pct_q20          |-> <<0, 1>>,
     mean_pct_q30          |-> <<0, 1>>,
     mean_gc_percent       |-> <<0, 1>>,
     mean_expected_errors  |-> <<0, 1>>,
     reads_passed_minlen   |-> 0,
     reads_failed_minlen   |-> 0,
     pct_passed            |-> <<0, 1>>]

\* compute_summary_stats(metrics_list): the dict as a record. up is the set
\* of the fields whose float was left above an exact tie by the rounding
\* errors of the float arithmetic; it matters at such ties only.
compute_summary_stats(metrics_list, up) ==
    IF metrics_list = <<>>
    THEN EmptySummary
    ELSE LET raw_lengths     == IntColumn(metrics_list, "raw_length")
             trimmed_lengths == IntColumn(metrics_list, "trimmed_length")
             mean_qs         == FloatColumn(metrics_list, "mean_q")
             pct_q20s        == FloatColumn(metrics_list, "pct_q20")
             pct_q30s        == FloatColumn(metrics_list, "pct_q30")
             gc_percents     == FloatColumn(metrics_list, "gc_percent")
             expected_errors_list == FloatColumn(metrics_list, "expected_errors")
             reads_passed    == ReadsPassed(metrics_list)
             reads_failed    == Len(metrics_list) - reads_passed
             pct_passed      == <<100 * reads_passed, Len(metrics_list)>>
         IN  [total_reads           |-> Len(metrics_list),
              mean_raw_length       |-> RoundedMean(raw_lengths, 1, 2, "mean_raw_length" \in up),
              median_raw_length     |-> RoundedMedian(raw_lengths, 1, 2, "median_raw_length" \in up),
              mean_trimmed_length   |-> RoundedMean(trimmed_lengths, 1, 2, "mean_trimmed_length" \in up),
              median_trimmed_length |-> RoundedMedian(trimmed_lengths, 1, 2, "median_trimmed_length" \in up),
              mean_mean_q           |-> RoundedMean(mean_qs, 100, 2, "mean_mean_q" \in up),
              median_mean_q         |-> RoundedMedian(mean_qs, 100, 2, "median_mean_q" \in up),
              mean_pct_q20          |-> RoundedMean(pct_q20s, 10000, 4, "mean_pct_q20" \in up),
              mean_pct_q30          |-> RoundedMean(pct_q30s, 10000, 4, "mean_pct_q30" \in up),
              mean_gc_percent       |-> RoundedMean(gc_percents, 100, 2, "mean_gc_percent" \in up),
              mean_expected_errors  |-> RoundedMean(expected_errors_list, 100, 2, "mean_expected_errors" \in up),
              reads_passed_minlen   |-> reads_passed,
              reads_failed_minlen   |-> reads_failed,
              pct_passed            |-> Round(pct_passed, 2)]

\* The float fields of the summary.
SummaryFloatFields ==
    {"mean_raw_length", "median_raw_length", "mean_trimmed_length",
     "median_trimmed_length", "mean_mean_q", "median_mean_q", "mean_pct_q20",
     "mean_pct_q30", "mean_gc_percent", "mean_expected_errors", "pct_passed"}

\* The fields of the summary of metrics_list on which the rounding errors
\* of the float arithmetic decide: the fields that depend on up.
UndecidedFields(metrics_list) ==
    {f \in SummaryFloatFields :
        compute_summary_stats(metrics_list, {f})[f]
            # compute_summary_stats(metrics_list, {})[f]}

\* ------------------------------------------------------------------------
\* io_utils.py: file discovery and parsing
\* ------------------------------------------------------------------------

\* A path is a record [dir, stem, ext]: its name is stem followed by ext, where
\* stem holds no dot and ext is the whole extension (".ab1", ".phd.1", ...).

\* str.lower() on the extensions the model draws.
LowerExt(ext) ==
    CASE ext = ".AB1"   -> ".ab1"
      [] ext = ".PHD.1" -> ".phd.1"
      [] OTHER          -> ext

\* The None of detect_format.
NoFormat == "None"

\* detect_format(file_path): by suffix for ab1, by the end of the name for phd.1.
detect_format(file_path) ==
    IF LowerExt(file_path.ext) = ".ab1" THEN "ab1"
    ELSE IF LowerExt(file_path.ext) = ".phd.1" THEN "phd.1"
    ELSE NoFormat

\* get_sample_id(file_path): the name without its last six characters for a
\* .phd.1 name, Path.stem otherwise; both are the stem of the record.
get_sample_id(file_path) ==
    IF LowerExt(file_path.ext) = ".phd.1" THEN file_path.stem ELSE file_path.stem

\* The (path, format) pairs of the files of known format among paths, in order.
RECURSIVE KnownFiles(_)
KnownFiles(paths) ==
    IF paths = <<>> THEN <<>>
    ELSE (IF detect_format(Head(paths)) # NoFormat
          THEN << <<Head(paths), detect_format(Head(paths))>> >>
          ELSE <<>>) \o KnownFiles(Tail(paths))

\* An input is a record [kind, path, listing, deep]: kind "file" for an
\* existing file at path, "dir" for a directory whose glob("*") yields the
\* files of listing and whose glob("**/*") yields those of deep, "missing"
\* for a path that does not exist.
FilesOfInput(input, recursive) ==
    IF input.kind = "file" THEN KnownFiles(<<input.path>>)
    ELSE IF input.kind = "dir"
    THEN KnownFiles(IF recursive THEN input.deep ELSE input.listing)
    ELSE <<>>

\* The first loop of discover_files: the list files.
RECURSIVE CollectFiles(_, _)
CollectFiles(inputs, recursive) ==
    IF inputs = <<>> THEN <<>>
    ELSE FilesOfInput(Head(inputs), recursive) \o CollectFiles(Tail(inputs), recursive)

\* A deduplication step in which the file seen last replaces the one held.
DedupStepLastWins(seen, entry) ==
    LET sample_id == get_sample_id(entry[1])
        hits == {i \in 1..Len(seen) : seen[i].sample_id = sample_id}
    IN  IF hits = {}
        THEN Append(seen, [sample_id |-> sample_id, value |-> entry])
        ELSE [seen EXCEPT ![CHOOSE i \in hits : TRUE].value = entry]

\* One iteration of the deduplication loop. seen_samples is the dict in
\* insertion order: a sequence of [sample_id, value] with distinct sample_ids.
DedupStep(seen, entry) ==
    LET sample_id == get_sample_id(entry[1])
        hits == {i \in 1..Len(seen) : seen[i].sample_id = sample_id}
    IN  IF hits = {}
        THEN Append(seen, [sample_id |-> sample_id, value |-> entry])
        ELSE LET i == CHOOSE i \in hits : TRUE
             IN  IF entry[2] = "ab1" /\ seen[i].value[2] = "phd.1"
                 THEN [seen EXCEPT ![i].value = entry]
                 ELSE seen

RECURSIVE DedupLoop(_, _)
DedupLoop(seen, files) ==
    IF files = <<>> THEN seen
    ELSE DedupLoop(DedupStep(seen, Head(files)), Tail(files))

\* discover_files(inputs, recursive): list(seen_samples.values()).
discover_files(inputs, recursive) ==
    LET seen == DedupLoop(<<>>, CollectFiles(inputs, recursive))
    IN  [i \in 1..Len(seen) |-> seen[i].value]

\* The files of the file system drawn.
S1Ab1 == [dir |-> "run", stem |-> "s1", ext |-> ".ab1"]

S2Ab1 == [dir |-> "run", stem |-> "s2", ext |-> ".ab1"]

S3Ab1 == [dir |-> "run", stem |-> "s3", ext |-> ".AB1"]

S4Ab1 == [dir |-> "run", stem |-> "s4", ext |-> ".ab1"]

S1Phd == [dir |-> "old", stem |-> "s1", ext |-> ".phd.1"]

S5Ab1 == [dir |-> "old/broken", stem |-> "s5", ext |-> ".ab1"]

NotesTxt == [dir |-> "old", stem |-> "notes", ext |-> ".txt"]

\* What _parse_ab1 and _parse_phd return for the files of the file system:
\* (seq, quals); <<>> where the parser returns None or raises (S5Ab1).
ParsedRecord(file_path) ==
    CASE file_path = S1Ab1 -> << <<"A", "G", "A">>, <<10, 10, 20>> >>
      [] file_path = S2Ab1 -> << <<"A", "g", "N">>, <<10, 10, 20>> >>
      [] file_path = S3Ab1 -> << <<"G", "G", "A">>, <<10, 10, 20>> >>
      [] file_path = S4Ab1 -> << <<"A", "G", "G">>, <<10, 20, 20>> >>
      [] file_path = S1Phd -> << <<"A", "G">>, <<30, 30>> >>
      [] OTHER             -> <<>>

\* parse_sequence_file(file_path, file_format): None (<<>>) for an unknown
\* format and for a parser that fails.
parse_sequence_file(file_path, file_format) ==
    IF file_format \in {"ab1", "phd.1"} THEN ParsedRecord(file_path) ELSE <<>>

\* What extract_traces returns for the files of the file system (<<>> for None).
extract_traces(ab1_path) ==
    CASE ab1_path = S1Ab1 ->
            [A |-> TraceOf(10, 0), C |-> TraceOf(0, 0), G |-> TraceOf(5, 2),
             T |-> TraceOf(0, 0), peak_locations |-> <<0, TraceLen - 1, 0>>]
      [] ab1_path = S4Ab1 ->
            [A |-> TraceOf(10, -1), C |-> TraceOf(10, 2), G |-> TraceOf(0, 0),
             T |-> TraceOf(0, 0), peak_locations |-> <<0, 0>>]
      [] OTHER -> <<>>

\* make_read_id(sample_id, trim_start, trim_end): the parts of the f-string
\* "{sample_id}/trim:{trim_start}-{trim_end}".
make_read_id(sample_id, trim_start, trim_end) ==
    <<sample_id, "/trim:", trim_start, "-", trim_end>>

\* ------------------------------------------------------------------------
\* cli.py: the body of the processing loop of the qc, trim and all commands
\* ------------------------------------------------------------------------

\* The commands that collect metrics_list and compute the summary.
HasMetrics(command) == command \in {"qc", "all"}

\* The commands that collect trimmed_sequences and write them.
HasTrimmed(command) == command \in {"trim", "all"}

\* ambiguous_calling and caller and file_format == "ab1": the caller, made
\* with the default options, is used for the file.
Recalls(opts, file_format) == opts.ambiguous_calling /\ file_format = "ab1"

\* recalled_seq: the reclassified sequence when the caller is used for the
\* file, seq otherwise.
RecalledSeq(opts, file_format, seq_, base_calls) ==
    IF Recalls(opts, file_format) THEN base_calls_to_sequence(base_calls) ELSE seq_

\* What an iteration that skips its file leaves.
SkippedFile ==
    [outcome |-> "skipped", annotated |-> FALSE, base_calls |-> <<>>, annotations |-> <<>>,
     metrics |-> <<>>, trimmed |-> <<>>, sequence_data |-> <<>>]

\* The loop body once apply_trim has run: trim is the outcome of apply_trim,
\* a raise included. annotated tells that base_call_annotations[sample_id]
\* was set, before apply_trim ran; metrics is what qc and all append to
\* metrics_list, trimmed what trim and all append to trimmed_sequences,
\* sequence_data what qc and all append to sequences_data under --plots.
ProcessTrimmed(opts, file_path, file_format, recalled_seq, quals_, base_calls, trim, up) ==
    [outcome       |-> IF trim.raised # "none" THEN trim.raised ELSE "processed",
     annotated     |-> Recalls(opts, file_format),
     base_calls    |-> base_calls,
     annotations   |-> base_calls_to_annotations(base_calls),
     metrics       |-> IF trim.raised # "none" \/ ~HasMetrics(opts.command) THEN <<>>
                       ELSE compute_qc_metrics(get_sample_id(file_path), file_path, file_format, recalled_seq, quals_, trim.ret[3], trim.ret[4], opts.qthreshold, opts.min_length, up),
     trimmed       |-> IF trim.raised # "none" \/ ~HasTrimmed(opts.command) THEN <<>>
                       ELSE [read_id |-> make_read_id(get_sample_id(file_path), trim.ret[3], trim.ret[4]),
                             seq |-> trim.ret[1], quals |-> trim.ret[2]],
     sequence_data |-> IF trim.raised # "none" \/ ~HasMetrics(opts.command) THEN <<>>
                       ELSE [sample_id |-> get_sample_id(file_path), quals |-> quals_,
                             trim_start |-> trim.ret[3], trim_end |-> trim.ret[4],
                             qthreshold |-> opts.qthreshold]]

\* The loop body once the sequence to trim is known: apply_trim, then the
\* rest.
ProcessRecalled(opts, file_path, file_format, recalled_seq, quals_, base_calls, up) ==
    ProcessTrimmed(opts, file_path, file_format, recalled_seq, quals_, base_calls,
                   apply_trim(recalled_seq, quals_, opts.method, opts.qthreshold), up)

\* The loop body once the caller has returned base_calls (<<>> when it is
\* not used for the file).
ProcessCalled(opts, file_path, file_format, seq_, quals_, base_calls, up) ==
    ProcessRecalled(opts, file_path, file_format,
                    RecalledSeq(opts, file_format, seq_, base_calls), quals_, base_calls, up)

\* The loop body after a successful parse. up is the argument of that name
\* of compute_qc_metrics.
ProcessParsed(opts, file_path, file_format, seq_, quals_, up) ==
    ProcessCalled(opts, file_path, file_format, seq_, quals_,
                  IF Recalls(opts, file_format)
                  THEN call_bases(DefaultConfig, extract_traces(file_path), seq_, quals_)
                  ELSE <<>>,
                  up)

\* A loop body that lets the failure of the parser end the run.
ProcessFileStopOnFailure(opts, file_path, file_format, up) ==
    LET result == parse_sequence_file(file_path, file_format)
    IN  IF result = <<>>
        THEN [SkippedFile EXCEPT !.outcome = "ParseError"]
        ELSE ProcessParsed(opts, file_path, file_format, result[1], result[2], up)

\* One iteration of the loop for (file_path, file_format): the file is
\* skipped when parse_sequence_file returns None.
ProcessFile(opts, file_path, file_format, up) ==
    LET result == parse_sequence_file(file_path, file_format)
    IN  IF result = <<>>
        THEN SkippedFile
        ELSE ProcessParsed(opts, file_path, file_format, result[1], result[2], up)

\* ------------------------------------------------------------------------
\* Calls of the functions of qc.py
\* ------------------------------------------------------------------------

\* Longest sequence drawn for compute_qc_metrics.
MaxSeqLen == 3

\* Symbols drawn for the sequence: a base outside GC, one inside it in
\* lower case, and the no-call symbol.
QcSeqSymbols == {"A", "g", "N"}

\* Trim ranges drawn: an empty one, one of two bases, an inverted one.
TrimRangeValues == {<<0, 0>>, <<1, 3>>, <<3, 1>>}

\* Minimum lengths drawn.
MinLengthValues == {0, 2}

\* Quality thresholds drawn for compute_qc_metrics.
QThresholdValues == {20, 30}

InitQc ==
    /\ qfn = "none"
    /\ qargs = <<>>
    /\ qret = <<>>

\* compute_qc_metrics(sample_id, source_file, file_format, seq, quals,
\*                    trim_start, trim_end, qthreshold, min_length)
ComputeQcMetricsCall ==
    /\ qfn = "none"
    /\ \E s \in SeqsUpTo(QcSeqSymbols, MaxSeqLen), q \in SeqsUpTo(QualValues, MaxLen),
          range \in TrimRangeValues, qthreshold \in QThresholdValues,
          min_length \in MinLengthValues :
        \E up \in ExpectedErrorsUps(q) :
            /\ qfn' = "compute_qc_metrics"
            /\ qargs' = [seq |-> s, quals |-> q, trim_start |-> range[1],
                         trim_end |-> range[2], qthreshold |-> qthreshold,
                         min_length |-> min_length, up |-> up]
            /\ qret' = compute_qc_metrics("read1", "read1.ab1", "ab1", s, q,
                                          range[1], range[2], qthreshold, min_length, up)
    /\ UNCHANGED <<trimVars, callerVars, ioVars, cliVars>>

\* _longest_hq_stretch(quals, threshold)
LongestHqStretchCall ==
    /\ qfn = "none"
    /\ \E q \in SeqsUpTo(QualValues, MaxLen), T \in ThresholdValues :
        /\ qfn' = "_longest_hq_stretch"
        /\ qargs' = [quals |-> q, threshold |-> T]
        /\ qret' = _longest_hq_stretch(q, T)
    /\ UNCHANGED <<trimVars, callerVars, ioVars, cliVars>>

\* Largest batch drawn for compute_summary_stats.
MaxBatch == 4

\* Options under which the metrics of the batches are computed.
BatchOptions ==
    {[command |-> "qc", method |-> "mott", qthreshold |-> 20, min_length |-> 2,
      ambiguous_calling |-> FALSE],
     [command |-> "qc", method |-> "ends", qthreshold |-> 20, min_length |-> 2,
      ambiguous_calling |-> TRUE]}

\* The files whose metrics the batches are drawn from.
BatchFiles == {<<"mott", S1Ab1>>, <<"mott", S2Ab1>>, <<"mott", S3Ab1>>, <<"mott", S4Ab1>>,
               <<"mott", S1Phd>>, <<"ends", S4Ab1>>}

\* Per-read metrics as the processing loop appends them.
MetricsValues ==
    {ProcessFile(CHOOSE o \in BatchOptions : o.method = f[1], f[2], detect_format(f[2]), up).metrics :
        f \in BatchFiles, up \in BOOLEAN}

\* compute_summary_stats(metrics_list); rounded_up holds the fields whose value
\* before rounding is a decimal tie that the float does not hold exactly and
\* that round() took to the upper neighbour.
ComputeSummaryStatsCall ==
    /\ qfn = "none"
    /\ \E metrics_list \in SeqsUpTo(MetricsValues, MaxBatch) :
        \E rounded_up \in SUBSET UndecidedFields(metrics_list) :
            /\ qfn' = "compute_summary_stats"
            /\ qargs' = [metrics_list |-> metrics_list, rounded_up |-> rounded_up]
            /\ qret' = compute_summary_stats(metrics_list, rounded_up)
    /\ UNCHANGED <<trimVars, callerVars, ioVars, cliVars>>

\* The caller has used the result; the next call can be made.
QcDone ==
    /\ qfn # "none"
    /\ qfn' = "none"
    /\ qargs' = <<>>
    /\ qret' = <<>>
    /\ UNCHANGED <<trimVars, callerVars, ioVars, cliVars>>

\* ------------------------------------------------------------------------
\* Calls of discover_files
\* ------------------------------------------------------------------------

\* Longest list of input paths drawn.
MaxInputs == 4

FileInput(path) == [kind |-> "file", path |-> path, listing |-> <<>>, deep |-> <<>>]

\* The directory old: two files in it, one more in its subdirectory broken.
OldDir ==
    [kind |-> "dir", path |-> [dir |-> "", stem |-> "old", ext |-> ""],
     listing |-> <<NotesTxt, S1Phd>>, deep |-> <<NotesTxt, S1Phd, S5Ab1>>]

\* A path that does not exist.
MissingInput ==
    [kind |-> "missing", path |-> [dir |-> "run", stem |-> "gone", ext |-> ".ab1"],
     listing |-> <<>>, deep |-> <<>>]

\* Input paths drawn: files of both formats and of none, a file that does not
\* parse, a directory, a path that does not exist.
InputValues ==
    {FileInput(S1Ab1), FileInput(S2Ab1), FileInput(S3Ab1), FileInput(S4Ab1),
     FileInput(S5Ab1), FileInput(NotesTxt), OldDir, MissingInput}

InitIo ==
    /\ ifn = "none"
    /\ iargs = <<>>
    /\ iret = <<>>

\* discover_files(inputs, recursive).
DiscoverFilesCall ==
    /\ ifn = "none"
    /\ \E inputs \in SeqsUpTo(InputValues, MaxInputs), recursive \in BOOLEAN :
        /\ ifn' = "discover_files"
        /\ iargs' = [inputs |-> inputs, recursive |-> recursive]
        /\ iret' = discover_files(inputs, recursive)
    /\ UNCHANGED <<trimVars, callerVars, qcVars, cliVars>>

\* The caller has used the result; the next call can be made.
IoDone ==
    /\ ifn # "none"
    /\ ifn' = "none"
    /\ iargs' = <<>>
    /\ iret' = <<>>
    /\ UNCHANGED <<trimVars, callerVars, qcVars, cliVars>>

\* ------------------------------------------------------------------------
\* cli.py: a run of the qc, the trim or the all command
\* ------------------------------------------------------------------------

\* Trimming methods given on the command line: the two supported ones and one
\* that is not.
CliMethodValues == {"mott", "ends", "max-window"}

\* The commands of the tool.
CliCommands == {"qc", "trim", "all"}

\* Longest list of input paths drawn for a run.
MaxCliInputs == 3

\* --qthreshold of the runs (the default).
CliQThreshold == 20

\* --min-length of the runs.
CliMinLength == 2

InitCli ==
    /\ pc = "none"
    /\ cli_options = <<>>
    /\ cli_files = <<>>
    /\ cli_index = 0
    /\ cli_metrics_list = <<>>
    /\ cli_trimmed_sequences = <<>>
    /\ cli_sequences_data = <<>>
    /\ cli_base_call_annotations = <<>>
    /\ cli_base_calls_for_plots = <<>>
    /\ cli_skipped_count = 0
    /\ cli_summary = <<>>
    /\ cli_summary_calls = 0
    /\ cli_outputs = {}
    /\ cli_plots = {}
    /\ cli_exit = "running"

\* The command starts: setup_logging opens logs/run.log, then discover_files,
\* then exit code 1 when no file was found; otherwise the loop is entered
\* with empty lists. --plots is an option of qc and all, --out-fasta one of
\* trim and all; --out-fastq moves the FASTQ file and nothing else.
CliStart ==
    /\ pc = "none"
    /\ \E command \in CliCommands, m \in CliMethodValues, ambiguous_calling \in BOOLEAN,
          inputs \in SeqsUpTo(InputValues, MaxCliInputs), recursive \in BOOLEAN :
        \E plots \in (IF HasMetrics(command) THEN BOOLEAN ELSE {FALSE}),
           out_fasta \in (IF HasTrimmed(command) THEN BOOLEAN ELSE {FALSE}) :
            /\ cli_options' = [command |-> command, method |-> m,
                               qthreshold |-> CliQThreshold, min_length |-> CliMinLength,
                               ambiguous_calling |-> ambiguous_calling,
                               plots |-> plots, out_fasta |-> out_fasta]
            /\ cli_files' = discover_files(inputs, recursive)
            /\ IF discover_files(inputs, recursive) = <<>>
               THEN pc' = "exited" /\ cli_exit' = "Exit(code=1)"
               ELSE pc' = "loop" /\ cli_exit' = "running"
    /\ cli_outputs' = cli_outputs \cup {"run_log"}
    /\ cli_index' = 0
    /\ cli_metrics_list' = <<>>
    /\ cli_trimmed_sequences' = <<>>
    /\ cli_sequences_data' = <<>>
    /\ cli_base_call_annotations' = <<>>
    /\ cli_base_calls_for_plots' = <<>>
    /\ cli_skipped_count' = 0
    /\ UNCHANGED <<cli_summary, cli_summary_calls, cli_plots>>
    /\ UNCHANGED <<trimVars, callerVars, qcVars, ioVars>>

\* The values of up that matter for the next file.
NextFileUps ==
    LET result == parse_sequence_file(cli_files[cli_index + 1][1], cli_files[cli_index + 1][2])
    IN  IF result = <<>> THEN {FALSE} ELSE ExpectedErrorsUps(result[2])

\* What the loop body does with the next file.
NextFileResult(up) ==
    ProcessFile(cli_options, cli_files[cli_index + 1][1], cli_files[cli_index + 1][2], up)

\* base_call_annotations[sample_id] = annotations, when the caller was used.
AnnotationsAfter(base_call_annotations, file_path, r) ==
    IF r.annotated
    THEN (get_sample_id(file_path) :> r.annotations) @@ base_call_annotations
    ELSE base_call_annotations

\* base_calls_for_plots[sample_id] = base_calls_obj, in the all command
\* under --plots when the caller was used.
BaseCallsForPlotsAfter(opts, base_calls_for_plots, file_path, r) ==
    IF opts.command = "all" /\ opts.plots /\ r.annotated
    THEN (get_sample_id(file_path) :> r.base_calls) @@ base_calls_for_plots
    ELSE base_calls_for_plots

\* The next file does not parse: it is counted as skipped.
CliSkipFile ==
    /\ pc = "loop"
    /\ cli_index < Len(cli_files)
    /\ NextFileResult(FALSE).outcome = "skipped"
    /\ cli_skipped_count' = cli_skipped_count + 1
    /\ cli_index' = cli_index + 1
    /\ UNCHANGED <<pc, cli_options, cli_files, cli_metrics_list, cli_trimmed_sequences,
                   cli_sequences_data, cli_base_call_annotations, cli_base_calls_for_plots,
                   cli_summary, cli_summary_calls, cli_outputs, cli_plots, cli_exit>>
    /\ UNCHANGED <<trimVars, callerVars, qcVars, ioVars>>

\* The next file parses and is trimmed: qc and all append its metrics, trim
\* and all its trimmed read, qc and all under --plots its plotting data.
CliProcessFile ==
    /\ pc = "loop"
    /\ cli_index < Len(cli_files)
    /\ \E up \in NextFileUps : \E r \in {NextFileResult(up)} :
        /\ r.outcome = "processed"
        /\ cli_base_call_annotations' =
                AnnotationsAfter(cli_base_call_annotations, cli_files[cli_index + 1][1], r)
        /\ cli_base_calls_for_plots' =
                BaseCallsForPlotsAfter(cli_options, cli_base_calls_for_plots,
                                       cli_files[cli_index + 1][1], r)
        /\ cli_metrics_list' =
                IF HasMetrics(cli_options.command)
                THEN Append(cli_metrics_list, r.metrics)
                ELSE cli_metrics_list
        /\ cli_trimmed_sequences' =
                IF HasTrimmed(cli_options.command)
                THEN Append(cli_trimmed_sequences, r.trimmed)
                ELSE cli_trimmed_sequences
        /\ cli_sequences_data' =
                IF HasMetrics(cli_options.command) /\ cli_options.plots
                THEN Append(cli_sequences_data, r.sequence_data)
                ELSE cli_sequences_data
    /\ cli_index' = cli_index + 1
    /\ UNCHANGED <<pc, cli_options, cli_files, cli_skipped_count,
                   cli_summary, cli_summary_calls, cli_outputs, cli_plots, cli_exit>>
    /\ UNCHANGED <<trimVars, callerVars, qcVars, ioVars>>

\* apply_trim raises for the next file, after the caller has annotated it:
\* nothing catches the exception and the run ends.
CliRaise ==
    /\ pc = "loop"
    /\ cli_index < Len(cli_files)
    /\ \E r \in {NextFileResult(FALSE)} :
        /\ r.outcome \notin {"skipped", "processed"}
        /\ cli_exit' = r.outcome
        /\ cli_base_call_annotations' =
                AnnotationsAfter(cli_base_call_annotations, cli_files[cli_index + 1][1], r)
        /\ cli_base_calls_for_plots' =
                BaseCallsForPlotsAfter(cli_options, cli_base_calls_for_plots,
                                       cli_files[cli_index + 1][1], r)
    /\ pc' = "exited"
    /\ UNCHANGED <<cli_options, cli_files, cli_index, cli_metrics_list, cli_trimmed_sequences,
                   cli_sequences_data, cli_skipped_count, cli_summary, cli_summary_calls,
                   cli_outputs, cli_plots>>
    /\ UNCHANGED <<trimVars, callerVars, qcVars, ioVars>>

\* A test of the end of the loop that never finds the list empty.
NoReadsNever(reads) == FALSE

\* if not metrics_list (qc, all); if not trimmed_sequences (trim).
NoReads(reads) == reads = <<>>

\* The outputs the command writes after the loop, by what they hold: the
\* per-read metrics (CSV, and Parquet when the engine is there), the summary,
\* the base call annotations when the caller annotated a read, the trimmed
\* reads as FASTQ and, under --out-fasta, as FASTA.
OutputsOf(opts, base_call_annotations) ==
    (IF HasMetrics(opts.command) THEN {"qc_metrics", "summary_stats"} ELSE {})
    \cup (IF opts.ambiguous_calling /\ DOMAIN base_call_annotations # {}
          THEN {"base_call_annotations"} ELSE {})
    \cup (IF HasTrimmed(opts.command) THEN {"trimmed_fastq"} ELSE {})
    \cup (IF HasTrimmed(opts.command) /\ opts.out_fasta THEN {"trimmed_fasta"} ELSE {})

\* The plot files of one entry of sequences_data, as <<sample_id, name>>.
PlotsOfSequence(opts, seq_data, base_calls_for_plots) ==
    {<<seq_data.sample_id, "_trim.png">>, <<seq_data.sample_id, "_trim_interactive.html">>}
    \cup (IF /\ opts.command = "all"
             /\ opts.ambiguous_calling
             /\ seq_data.sample_id \in DOMAIN base_calls_for_plots
          THEN {<<seq_data.sample_id, "_ambiguous_interactive.html">>} ELSE {})

\* The plot files written under --plots: those of the first ten entries of
\* sequences_data and the three of the whole run (sample_id "").
PlotsOf(opts, sequences_data, base_calls_for_plots) ==
    IF ~opts.plots THEN {}
    ELSE LET first == PySlice(sequences_data, 0, 10)
         IN  UNION {PlotsOfSequence(opts, first[i], base_calls_for_plots) : i \in 1..Len(first)}
             \cup (IF sequences_data # <<>> THEN {<<"", "sequences_overview.png">>} ELSE {})
             \cup {<<"", "summary_histograms.png">>, <<"", "length_comparison.png">>}

\* The loop is over: exit code 1 when no read was processed; otherwise qc and
\* all write the metrics and compute and write the summary, the outputs of
\* the command and its plots are written, and the command returns.
CliFinish ==
    /\ pc = "loop"
    /\ cli_index = Len(cli_files)
    /\ pc' = "exited"
    /\ IF NoReads(IF HasMetrics(cli_options.command) THEN cli_metrics_list
                  ELSE cli_trimmed_sequences)
       THEN /\ cli_exit' = "Exit(code=1)"
            /\ UNCHANGED <<cli_summary, cli_summary_calls, cli_outputs, cli_plots>>
       ELSE /\ IF HasMetrics(cli_options.command)
               THEN /\ \E rounded_up \in SUBSET UndecidedFields(cli_metrics_list) :
                            cli_summary' = compute_summary_stats(cli_metrics_list, rounded_up)
                    /\ cli_summary_calls' = cli_summary_calls + 1
               ELSE UNCHANGED <<cli_summary, cli_summary_calls>>
            /\ cli_outputs' = cli_outputs \cup OutputsOf(cli_options, cli_base_call_annotations)
            /\ cli_plots' = PlotsOf(cli_options, cli_sequences_data, cli_base_calls_for_plots)
            /\ cli_exit' = "returned"
    /\ UNCHANGED <<cli_options, cli_files, cli_index, cli_metrics_list, cli_trimmed_sequences,
                   cli_sequences_data, cli_base_call_annotations, cli_base_calls_for_plots,
                   cli_skipped_count>>
    /\ UNCHANGED <<trimVars, callerVars, qcVars, ioVars>>

\* ------------------------------------------------------------------------
\* Calls of the trimming functions
\* ------------------------------------------------------------------------

InitTrim ==
    /\ fn = "none"
    /\ seq = <<>>
    /\ quals = <<>>
    /\ method = ""
    /\ threshold = 0
    /\ ret = <<>>
    /\ raised = "none"
    /\ ran = "none"

\* trim_mott(quals, threshold)
TrimMottCall ==
    /\ fn = "none"
    /\ \E q \in SeqsUpTo(QualValues, MaxLen), T \in ThresholdValues :
        /\ fn' = "trim_mott"
        /\ quals' = q
        /\ threshold' = T
        /\ ret' = trim_mott(q, T)
        /\ seq' = <<>>
        /\ method' = ""
        /\ raised' = "none"
        /\ ran' = "none"
    /\ UNCHANGED <<callerVars, qcVars, ioVars, cliVars>>

\* trim_ends(quals, threshold)
TrimEndsCall ==
    /\ fn = "none"
    /\ \E q \in SeqsUpTo(QualValues, MaxLen), T \in ThresholdValues :
        /\ fn' = "trim_ends"
        /\ quals' = q
        /\ threshold' = T
        /\ ret' = trim_ends(q, T)
        /\ seq' = <<>>
        /\ method' = ""
        /\ raised' = "none"
        /\ ran' = "none"
    /\ UNCHANGED <<callerVars, qcVars, ioVars, cliVars>>

\* apply_trim(seq, quals, method, threshold)
ApplyTrimCall ==
    /\ fn = "none"
    /\ \E s \in SeqsUpTo(SeqSymbols, MaxLen), q \in SeqsUpTo(QualValues, MaxLen),
          m \in MethodNames, T \in ThresholdValues :
        LET out == apply_trim(s, q, m, T)
        IN  /\ fn' = "apply_trim"
            /\ seq' = s
            /\ quals' = q
            /\ method' = m
            /\ threshold' = T
            /\ ret' = out.ret
            /\ raised' = out.raised
            /\ ran' = out.ran
    /\ UNCHANGED <<callerVars, qcVars, ioVars, cliVars>>

\* The caller has used the result; the next call can be made.
TrimDone ==
    /\ fn # "none"
    /\ fn' = "none"
    /\ seq' = <<>>
    /\ quals' = <<>>
    /\ method' = ""
    /\ threshold' = 0
    /\ ret' = <<>>
    /\ raised' = "none"
    /\ ran' = "none"
    /\ UNCHANGED <<callerVars, qcVars, ioVars, cliVars>>

Init == InitTrim /\ InitCaller /\ InitQc /\ InitIo /\ InitCli

NextTrim == TrimMottCall \/ TrimEndsCall \/ ApplyTrimCall \/ TrimDone

\* The trimming module alone.
SpecTrim == Init /\ [][NextTrim]_vars

NextCaller == ApplyCallingCriteriaCall \/ GetIupacCodeCall \/ CallerDone

\* The ambiguous base caller alone.
SpecCaller == Init /\ [][NextCaller]_vars

NextReads ==
    CallPositionCall \/ CallBasesNoTracesCall \/ CallBasesWithTracesCall \/ CallerDone

\* The calls per position and per read alone.
SpecReads == Init /\ [][NextReads]_vars

NextQc == ComputeQcMetricsCall \/ LongestHqStretchCall \/ ComputeSummaryStatsCall \/ QcDone

\* The functions of qc.py alone.
SpecQc == Init /\ [][NextQc]_vars

NextFiles == DiscoverFilesCall \/ IoDone

\* File discovery alone.
SpecFiles == Init /\ [][NextFiles]_vars

NextCli == CliStart \/ CliSkipFile \/ CliProcessFile \/ CliRaise \/ CliFinish

\* Runs of the qc, trim and all commands.
SpecCli == Init /\ [][NextCli]_vars

\* ------------------------------------------------------------------------
\* Properties of the trimming functions (checked under SpecTrim)
\* ------------------------------------------------------------------------

\* The half-open windows [i, j) of a vector of length n, the empty ones included.
Windows(n) == {w \in (0..n) \X (0..n) : w[1] <= w[2]}

\* The weighted sum of window [i, j) of q: the sum of q[k] - T over i <= k < j.
RECURSIVE WindowSum(_, _, _, _)
WindowSum(q, T, i, j) ==
    IF i >= j THEN 0 ELSE (q[i + 1] - T) + WindowSum(q, T, i + 1, j)

\* The largest weighted sum of any window (0: the empty window).
MaxWindowSum(q, T) ==
    CHOOSE m \in {WindowSum(q, T, w[1], w[2]) : w \in Windows(Len(q))} :
        \A w \in Windows(Len(q)) : WindowSum(q, T, w[1], w[2]) <= m

\* The windows that attain the largest weighted sum.
BestWindows(q, T) ==
    {w \in Windows(Len(q)) : WindowSum(q, T, w[1], w[2]) = MaxWindowSum(q, T)}

\* C1: trim_mott and trim_ends return a pair (start, end) with
\* 0 <= start <= end <= len(quality), for every vector (the empty one
\* included) and every threshold.
C1_TrimRangeWithinBounds ==
    fn \in {"trim_mott", "trim_ends"} =>
        /\ Len(ret) = 2
        /\ 0 <= ret[1]
        /\ ret[1] <= ret[2]
        /\ ret[2] <= Len(quals)

\* C1 witness: trim_mott kept a non-empty window clipped on both sides.
C1_Witness ==
    /\ fn = "trim_mott"
    /\ 0 < ret[1]
    /\ ret[1] < ret[2]
    /\ ret[2] < Len(quals)

\* C2: the window trim_mott returns has a weighted sum greater than or
\* equal to the weighted sum of every contiguous window of the vector.
C2_MottWindowIsMaximal ==
    fn = "trim_mott" =>
        \A w \in Windows(Len(quals)) :
            WindowSum(quals, threshold, ret[1], ret[2])
                >= WindowSum(quals, threshold, w[1], w[2])

\* C2 witness: trim_mott clipped the 5' flank and kept a window that
\* contains a base below the threshold.
C2_Witness ==
    /\ fn = "trim_mott"
    /\ 0 < ret[1]
    /\ \E k \in ret[1]..(ret[2] - 1) : quals[k + 1] < threshold

\* C3 as stated: among the windows of maximal positive sum, none starts
\* before the returned start and none with the same start ends before the
\* returned end.
C3_EarliestStartWins ==
    (fn = "trim_mott" /\ MaxWindowSum(quals, threshold) > 0) =>
        \A w \in BestWindows(quals, threshold) :
            /\ w[1] >= ret[1]
            /\ (w[1] = ret[1] => w[2] >= ret[2])

\* C3 amended: among the windows of maximal positive sum, trim_mott returns
\* the one that ends first, and of those with that end the shortest: none
\* ends before the returned end and none with the same end starts after the
\* returned start.
C3_EarliestEndWins ==
    (fn = "trim_mott" /\ MaxWindowSum(quals, threshold) > 0) =>
        /\ ret \in BestWindows(quals, threshold)
        /\ \A w \in BestWindows(quals, threshold) :
            /\ w[2] >= ret[2]
            /\ (w[2] = ret[2] => w[1] <= ret[1])

\* C3 witness: a later, disjoint window has the same maximal positive sum
\* as the returned one.
C3_Witness ==
    /\ fn = "trim_mott"
    /\ MaxWindowSum(quals, threshold) > 0
    /\ \E w \in BestWindows(quals, threshold) : w[1] >= ret[2] /\ w[2] > w[1]

\* C4: trim_mott returns (0, 0) without raising for the empty vector and
\* whenever no window has a strictly positive weighted sum.
C4_MottNothingKept ==
    (/\ fn = "trim_mott"
     /\ \/ quals = <<>>
        \/ \A w \in Windows(Len(quals)) :
               WindowSum(quals, threshold, w[1], w[2]) <= 0) =>
        (ret = <<0, 0>> /\ raised = "none")

\* C4 witness: every quality equals the threshold and (0, 0) was returned.
C4_Witness ==
    /\ fn = "trim_mott"
    /\ Len(quals) >= 2
    /\ \A k \in 1..Len(quals) : quals[k] = threshold
    /\ ret = <<0, 0>>

\* C5: a non-empty range returned by trim_ends starts and ends on a base
\* with quality >= T, no base outside it has quality >= T, and the bases
\* below T between two qualifying bases are inside it.
C5_EndsClipOnlyFlanks ==
    (fn = "trim_ends" /\ ret[2] > ret[1]) =>
        /\ quals[ret[1] + 1] >= threshold
        /\ quals[ret[2]] >= threshold
        /\ \A k \in 0..(Len(quals) - 1) :
               (k < ret[1] \/ k >= ret[2]) => quals[k + 1] < threshold
        /\ \A i, k, j \in 0..(Len(quals) - 1) :
               (/\ i < k
                /\ k < j
                /\ quals[i + 1] >= threshold
                /\ quals[j + 1] >= threshold
                /\ quals[k + 1] < threshold) => (ret[1] <= k /\ k < ret[2])

\* C5 witness: trim_ends clipped a flank and kept a base below the threshold.
C5_Witness ==
    /\ fn = "trim_ends"
    /\ 0 < ret[1]
    /\ \E k \in ret[1]..(ret[2] - 1) : quals[k + 1] < threshold

\* C6: trim_ends returns (0, 0) exactly when the vector is empty or has no
\* base with quality >= T; with such a base the range is non-empty.
C6_EndsNothingKept ==
    fn = "trim_ends" =>
        /\ raised = "none"
        /\ ret = <<0, 0>> <=>
               (quals = <<>> \/ \A k \in 1..Len(quals) : quals[k] < threshold)
        /\ (\E k \in 1..Len(quals) : quals[k] >= threshold) => ret[2] > ret[1]

\* C6 witness: a non-empty vector with no qualifying base gave (0, 0).
C6_Witness ==
    /\ fn = "trim_ends"
    /\ Len(quals) >= 2
    /\ \A k \in 1..Len(quals) : quals[k] < threshold
    /\ ret = <<0, 0>>

\* C7: apply_trim on a sequence and a quality vector of different lengths
\* fails with an error and returns nothing.
C7_MismatchedLengthsRejected ==
    (fn = "apply_trim" /\ Len(seq) # Len(quals)) =>
        (raised = "ValueError" /\ ret = <<>>)

\* C8: apply_trim raises for every method name but "mott" and "ends",
\* running no algorithm and returning nothing, and never raises for these two.
C8_UnknownMethodRejected ==
    fn = "apply_trim" =>
        /\ method \notin {"mott", "ends"} =>
               (raised = "ValueError" /\ ran = "none" /\ ret = <<>>)
        /\ method \in {"mott", "ends"} => raised = "none"

\* C8 witness: a call with a method name that differs only in case raised.
C8_Witness ==
    /\ fn = "apply_trim"
    /\ method = "MOTT"
    /\ Len(quals) > 0
    /\ raised = "ValueError"

\* C9: for equal lengths and a supported method, apply_trim returns the
\* selected algorithm's (start, end) and the slices [start:end] of the
\* sequence and of the quality vector, each of length end - start.
C9_ApplyTrimSlices ==
    (fn = "apply_trim" /\ Len(seq) = Len(quals) /\ method \in {"mott", "ends"}) =>
        LET r == IF method = "mott"
                 THEN trim_mott(quals, threshold)
                 ELSE trim_ends(quals, threshold)
        IN  /\ Len(ret) = 4
            /\ ret[3] = r[1]
            /\ ret[4] = r[2]
            /\ Len(ret[1]) = r[2] - r[1]
            /\ Len(ret[2]) = r[2] - r[1]
            /\ \A k \in 1..(r[2] - r[1]) :
                   ret[1][k] = seq[r[1] + k] /\ ret[2][k] = quals[r[1] + k]

\* C9 witness: apply_trim with the ends method clipped both flanks of a
\* sequence whose symbols differ.
C9_Witness ==
    /\ fn = "apply_trim"
    /\ method = "ends"
    /\ Len(seq) = Len(quals)
    /\ raised = "none"
    /\ 0 < ret[3]
    /\ ret[3] + 1 < ret[4]
    /\ ret[4] < Len(seq)
    /\ ret[1][1] # ret[1][2]

\* ------------------------------------------------------------------------
\* Properties of the ambiguous base caller (checked under SpecCaller)
\* ------------------------------------------------------------------------

\* The specified IUPAC code of a pair of symbols.
TableIupac(b1, b2) ==
    CASE {b1, b2} = {"A", "G"} -> "R"
      [] {b1, b2} = {"C", "T"} -> "Y"
      [] {b1, b2} = {"G", "C"} -> "S"
      [] {b1, b2} = {"A", "T"} -> "W"
      [] {b1, b2} = {"G", "T"} -> "K"
      [] {b1, b2} = {"A", "C"} -> "M"
      [] OTHER                 -> "N"

\* The specified decision table: rules 1 to 6 and the fallback, each a guard
\* and the outcome (called symbol, call mode, flag set) the rule gives.
CriteriaTable(cfg, a) ==
    <<  \* 1
        [guard  |-> a.quality < cfg.q_min_noise \/ RLt(a.snr, cfg.snr_min),
         called |-> "N", mode |-> "no-call", flags |-> {"low_quality"}],
        \* 2
        [guard  |-> a.quality >= cfg.q_confident /\ RLt(a.spr, cfg.spr_noise_max),
         called |-> a.b1, mode |-> "single", flags |-> {}],
        \* 3
        [guard  |-> /\ RLe(cfg.spr_noise_max, a.spr)
                    /\ RLt(a.spr, cfg.spr_het_low)
                    /\ a.quality >= cfg.q_ambig,
         called |-> IF cfg.clonal_context THEN a.b1 ELSE TableIupac(a.b1, a.b2),
         mode   |-> IF cfg.clonal_context THEN "single" ELSE "ambiguous",
         flags  |-> IF cfg.clonal_context THEN {"minor_secondary"} ELSE {}],
        \* 4
        [guard  |-> /\ RLe(cfg.spr_het_low, a.spr)
                    /\ RLe(a.spr, cfg.spr_het_high)
                    /\ a.quality >= cfg.q_ambig
                    /\ RLe(cfg.snr_min, a.snr),
         called |-> TableIupac(a.b1, a.b2), mode |-> "ambiguous",
         flags  |-> {"heterozygous"}],
        \* 5
        [guard  |-> /\ RLt(cfg.spr_het_high, a.spr)
                    /\ RLt(a.spr, cfg.spr_unbalanced)
                    /\ a.quality >= cfg.q_ambig,
         called |-> IF cfg.clonal_context THEN a.b1 ELSE TableIupac(a.b1, a.b2),
         mode   |-> IF cfg.clonal_context THEN "single" ELSE "ambiguous",
         flags  |-> IF cfg.clonal_context
                    THEN {"uncertain_mixture"} ELSE {"unbalanced_mixture"}],
        \* 6
        [guard  |-> RLe(cfg.spr_unbalanced, a.spr),
         called |-> "N", mode |-> "no-call", flags |-> {"unclear_primary"}],
        \* fallback
        [guard  |-> TRUE,
         called |-> a.b1, mode |-> "single", flags |-> {}]
    >>

\* The first row of the table whose guard holds.
FirstMatch(table) ==
    table[CHOOSE i \in 1..Len(table) :
              table[i].guard /\ \A j \in 1..(i - 1) : ~table[j].guard]

\* The specified name of a call mode the code returns: the code names the
\* mode of an N call 'N'.
ModeName(call_mode) == IF call_mode = "N" THEN "no-call" ELSE call_mode

\* The set of the flags in a list of flags.
FlagSet(flags) == {flags[i] : i \in 1..Len(flags)}

\* C10: for every input and configuration, _apply_calling_criteria returns
\* the called symbol, the call mode and the flag set of the first matching
\* rule of the specified ordered table.
C10_CriteriaFollowTable ==
    cfn = "_apply_calling_criteria" =>
        LET row == FirstMatch(CriteriaTable(config, cargs))
        IN  /\ Len(cret) = 4
            /\ cret[1] = row.called
            /\ ModeName(cret[2]) = row.mode
            /\ FlagSet(cret[4]) = row.flags
            /\ Len(cret[4]) = Cardinality(row.flags)

\* C10 witness: two of rules 1 to 6 that give different called symbols both
\* match, and the call returned the outcome of the earlier one.
C10_Witness ==
    /\ cfn = "_apply_calling_criteria"
    /\ LET table == CriteriaTable(config, cargs)
       IN  \E i, j \in 2..6 :
               /\ i < j
               /\ ~table[1].guard
               /\ table[i].guard
               /\ table[j].guard
               /\ table[i].called # table[j].called
               /\ cret[1] = table[i].called
               /\ FlagSet(cret[4]) = table[i].flags

\* The thresholds of a configuration are in the order of the defaults.
ThresholdsOrdered(cfg) ==
    /\ cfg.q_min_noise <= cfg.q_ambig
    /\ cfg.q_ambig <= cfg.q_confident
    /\ RLe(cfg.spr_noise_max, cfg.spr_het_low)
    /\ RLe(cfg.spr_het_low, cfg.spr_het_high)
    /\ RLe(cfg.spr_het_high, cfg.spr_unbalanced)

\* The thresholds of a configuration are the defaults, in either context.
DefaultThresholds(cfg) == [cfg EXCEPT !.clonal_context = TRUE] = DefaultConfig

\* The call passes rule 1.
PassesRule1 ==
    /\ cargs.quality >= config.q_min_noise
    /\ RGe(cargs.snr, config.snr_min)

\* The call matches rule 2.
MatchesRule2 ==
    /\ cargs.quality >= config.q_confident
    /\ RLt(cargs.spr, config.spr_noise_max)

\* C11: whenever quality < q_min_noise or snr < snr_min, the classifier
\* returns N with the no-call mode and the single flag low_quality, whatever
\* spr, the intensities, the channel symbols and clonal_context are.
C11_Rule1Dominates ==
    (/\ cfn = "_apply_calling_criteria"
     /\ \/ cargs.quality < config.q_min_noise
        \/ RLt(cargs.snr, config.snr_min))
    => /\ cret[1] = "N"
       /\ ModeName(cret[2]) = "no-call"
       /\ cret[4] = <<"low_quality">>

\* C11 witness: the snr alone is below its minimum while the quality is
\* confident and spr is in the heterozygous range or at least spr_unbalanced,
\* and the call returned N.
C11_Witness ==
    /\ cfn = "_apply_calling_criteria"
    /\ RLt(cargs.snr, config.snr_min)
    /\ cargs.quality >= config.q_confident
    /\ cargs.quality >= config.q_ambig
    /\ \/ RLe(config.spr_het_low, cargs.spr) /\ RLe(cargs.spr, config.spr_het_high)
       \/ RGe(cargs.spr, config.spr_unbalanced)
    /\ cargs.b1 # cargs.b2
    /\ cret[1] = "N"
    /\ cret[4] = <<"low_quality">>

\* C12: with thresholds ordered as in the defaults, an input with
\* quality >= q_ambig, quality >= q_min_noise, snr >= snr_min and
\* spr_het_low <= spr <= spr_het_high is called IUPAC(b1, b2) with mode
\* ambiguous and the flag heterozygous, the same in clonal and in mixed
\* context, and its allele fraction is H1/(H1+H2) when H1+H2 > 0.
C12_HeterozygousCall ==
    (/\ cfn = "_apply_calling_criteria"
     /\ ThresholdsOrdered(config)
     /\ cargs.quality >= config.q_ambig
     /\ PassesRule1
     /\ RLe(config.spr_het_low, cargs.spr)
     /\ RLe(cargs.spr, config.spr_het_high))
    => /\ cret[1] = TableIupac(cargs.b1, cargs.b2)
       /\ ModeName(cret[2]) = "ambiguous"
       /\ cret[4] = <<"heterozygous">>
       /\ cret = _apply_calling_criteria(
                     [config EXCEPT !.clonal_context = ~config.clonal_context],
                     cargs.b1, cargs.b2, cargs.H1, cargs.H2,
                     cargs.spr, cargs.snr, cargs.quality)
       /\ cargs.H1 + cargs.H2 > 0 =>
              /\ cret[3][2] > 0
              /\ cret[3][1] * (cargs.H1 + cargs.H2) = cargs.H1 * cret[3][2]
       /\ (cargs.H1 = 100 /\ cargs.H2 = 50) =>
              /\ cret[3][2] > 0
              /\ 3 * cret[3][1] = 2 * cret[3][2]

\* C12 witness: channels A and G with H1 = 100 and H2 = 50, spr equal to
\* spr_het_high, under ordered thresholds other than the defaults: the call
\* is R.
C12_Witness ==
    /\ cfn = "_apply_calling_criteria"
    /\ ThresholdsOrdered(config)
    /\ ~DefaultThresholds(config)
    /\ cargs.quality >= config.q_ambig
    /\ cargs.quality < config.q_confident
    /\ PassesRule1
    /\ cargs.spr = config.spr_het_high
    /\ cargs.b1 = "A"
    /\ cargs.b2 = "G"
    /\ cargs.H1 = 100
    /\ cargs.H2 = 50
    /\ cret[1] = "R"
    /\ cret[4] = <<"heterozygous">>

\* The outcome of rule 3 is the one returned.
Rule3Outcome ==
    IF config.clonal_context
    THEN /\ cret[1] = cargs.b1
         /\ cret[2] = "single"
         /\ cret[4] = <<"minor_secondary">>
    ELSE /\ cret[1] = TableIupac(cargs.b1, cargs.b2)
         /\ cret[2] = "ambiguous"
         /\ cret[4] = <<>>

\* The outcome of rule 5 is the one returned.
Rule5Outcome ==
    IF config.clonal_context
    THEN /\ cret[1] = cargs.b1
         /\ cret[2] = "single"
         /\ cret[4] = <<"uncertain_mixture">>
    ELSE /\ cret[1] = TableIupac(cargs.b1, cargs.b2)
         /\ cret[2] = "ambiguous"
         /\ cret[4] = <<"unbalanced_mixture">>

\* spr is in the range of rule 3.
InRule3Range ==
    /\ RLe(config.spr_noise_max, cargs.spr)
    /\ RLt(cargs.spr, config.spr_het_low)

\* spr is in the range of rule 5.
InRule5Range ==
    /\ RLt(config.spr_het_high, cargs.spr)
    /\ RLt(cargs.spr, config.spr_unbalanced)

\* C13 as stated: an input that passes rule 1 and does not match rule 2,
\* with quality >= q_ambig, gets the outcome of rule 3 if
\* spr_noise_max <= spr < spr_het_low, and the outcome of rule 5 if
\* spr_het_high < spr < spr_unbalanced.
C13_RangesDecideAlone ==
    (/\ cfn = "_apply_calling_criteria"
     /\ PassesRule1
     /\ ~MatchesRule2
     /\ cargs.quality >= config.q_ambig)
    => /\ InRule3Range => Rule3Outcome
       /\ InRule5Range => Rule5Outcome

\* C13: an input that passes rule 1 and does not match rule 2, with
\* quality >= q_ambig, gets the outcome of rule 3 if
\* spr_noise_max <= spr < spr_het_low; otherwise, if
\* spr_het_high < spr < spr_unbalanced, it gets the outcome of rule 5.
C13_RangesDecideInOrder ==
    (/\ cfn = "_apply_calling_criteria"
     /\ PassesRule1
     /\ ~MatchesRule2
     /\ cargs.quality >= config.q_ambig)
    => /\ InRule3Range => Rule3Outcome
       /\ (~InRule3Range /\ InRule5Range) => Rule5Outcome

\* C13 witness: spr is in the range of rule 5 and not in that of rule 3, in
\* mixed context with two different channels, and the call is the IUPAC code
\* with the flag unbalanced_mixture.
C13_Witness ==
    /\ cfn = "_apply_calling_criteria"
    /\ PassesRule1
    /\ ~MatchesRule2
    /\ cargs.quality >= config.q_ambig
    /\ ~InRule3Range
    /\ InRule5Range
    /\ ~config.clonal_context
    /\ TableIupac(cargs.b1, cargs.b2) # "N"
    /\ cret[1] = TableIupac(cargs.b1, cargs.b2)
    /\ cret[4] = <<"unbalanced_mixture">>

\* The values of a call do not coincide with a threshold of the configuration.
OffThresholds ==
    /\ cargs.quality \notin {config.q_min_noise, config.q_ambig, config.q_confident}
    /\ cargs.snr # config.snr_min
    /\ cargs.spr \notin {config.spr_noise_max, config.spr_het_low,
                         config.spr_het_high, config.spr_unbalanced}

\* The return statement the call executed.
ReturnLine == CriteriaReturnLine(config, cargs.spr, cargs.snr, cargs.quality)

\* C14 as stated: with the default thresholds, an input whose quality, snr
\* and spr do not coincide with a threshold value is never decided by the
\* final fallback.
C14_FallbackOnlyAtBoundaries ==
    (/\ cfn = "_apply_calling_criteria"
     /\ DefaultThresholds(config)
     /\ OffThresholds)
    => ReturnLine # 410

\* C14: with thresholds ordered as in the defaults, the final fallback
\* decides exactly the inputs that pass rule 1 with spr < spr_unbalanced and
\* either quality < q_ambig, or quality < q_confident and
\* spr < spr_noise_max; it then calls the primary base with mode single and no
\* flags, and it never decides an input with quality >= q_confident.
C14_FallbackRegion ==
    (/\ cfn = "_apply_calling_criteria"
     /\ ThresholdsOrdered(config))
    => /\ ReturnLine = 410 <=>
              /\ PassesRule1
              /\ RLt(cargs.spr, config.spr_unbalanced)
              /\ \/ cargs.quality < config.q_ambig
                 \/ /\ cargs.quality < config.q_confident
                    /\ RLt(cargs.spr, config.spr_noise_max)
       /\ ReturnLine = 410 =>
              /\ cret[1] = cargs.b1
              /\ cret[2] = "single"
              /\ cret[4] = <<>>
              /\ cargs.quality < config.q_confident
       /\ cret[4] = <<>> =>
              ReturnLine \in {364, 377, 410}

\* C14 witness: under the default thresholds the fallback decided an input
\* none of whose values is a threshold value.
C14_Witness ==
    /\ cfn = "_apply_calling_criteria"
    /\ DefaultThresholds(config)
    /\ OffThresholds
    /\ ReturnLine = 410
    /\ cret[1] = cargs.b1
    /\ cret[4] = <<>>

\* The base a symbol stands for, in either case.
BaseOf(c) == Upper(c)

\* C15: the IUPAC lookup gives the same code for (a, b) and (b, a); it gives
\* R, Y, S, W, K, M for the pairs {A,G}, {C,T}, {G,C}, {A,T}, {G,T}, {A,C}
\* and N for every other pair, two equal bases and pairs with a symbol that
\* is no base included. A base is read in either case.
C15_IupacSymmetricAndTotal ==
    cfn = "_get_iupac_code" =>
        /\ cret = _get_iupac_code(cargs.base2, cargs.base1)
        /\ cret = TableIupac(BaseOf(cargs.base1), BaseOf(cargs.base2))
        /\ cret \in {"R", "Y", "S", "W", "K", "M", "N"}
        /\ (\/ BaseOf(cargs.base1) = BaseOf(cargs.base2)
            \/ BaseOf(cargs.base1) \notin BaseValues
            \/ BaseOf(cargs.base2) \notin BaseValues) => cret = "N"

\* C15 witness: the lookup of (G, A), the reverse of the order in which the
\* table writes the pair, returned R.
C15_Witness ==
    /\ cfn = "_get_iupac_code"
    /\ cargs.base1 = "G"
    /\ cargs.base2 = "A"
    /\ cret = "R"

\* ------------------------------------------------------------------------
\* Properties of the calls per position and per read (checked under SpecReads)
\* ------------------------------------------------------------------------

\* A rational with a positive denominator lies in [0, 1].
InUnitInterval(x) == x[2] > 0 /\ 0 <= x[1] /\ x[1] <= x[2]

\* Two rationals are equal.
REq(a, b) == a[1] * b[2] = b[1] * a[2]

\* C16 as stated: in every BaseCall of _call_position the allele fraction
\* lies in [0, 1], spr lies in [0, 1] when the primary intensity is positive
\* and spr is 0 otherwise.
C16_FractionsWithinUnit ==
    cfn = "_call_position" =>
        /\ InUnitInterval(cret.allele_fraction)
        /\ cret.primary_intensity > 0 => InUnitInterval(cret.spr)
        /\ cret.primary_intensity <= 0 => REq(cret.spr, <<0, 1>>)

\* C17: without trace data call_bases returns one BaseCall per position of
\* the read, decided by the quality of the position: quality < q_min_noise
\* gives N, no-call mode, flags low_quality and no_trace_data; otherwise the
\* original base, mode single, flag no_trace_data, and moderate_quality
\* exactly when quality < q_confident; each call carries no_trace_data and
\* allele fraction 1.
C17_FallbackByQuality ==
    (cfn = "call_bases" /\ DOMAIN cargs.traces = {}) =>
        /\ Len(cret) = Len(cargs.sequence)
        /\ \A i \in 1..Len(cargs.sequence) :
            LET bc == cret[i]
            IN  /\ bc.position = i - 1
                /\ i <= Len(cargs.qualities) => bc.quality = cargs.qualities[i]
                /\ bc.quality < config.q_min_noise =>
                       /\ bc.called_base = "N"
                       /\ ModeName(bc.call_mode) = "no-call"
                       /\ FlagSet(bc.flags) = {"low_quality", "no_trace_data"}
                /\ bc.quality >= config.q_min_noise =>
                       /\ bc.called_base = cargs.sequence[i]
                       /\ bc.call_mode = "single"
                       /\ FlagSet(bc.flags) =
                              {"no_trace_data"} \cup
                              (IF bc.quality < config.q_confident
                               THEN {"moderate_quality"} ELSE {})
                /\ "no_trace_data" \in FlagSet(bc.flags)
                /\ REq(bc.allele_fraction, <<1, 1>>)

\* C17 witness: a read of three bases whose calls are an N, a base flagged
\* moderate_quality and a base with the flag no_trace_data alone.
C17_Witness ==
    /\ cfn = "call_bases"
    /\ DOMAIN cargs.traces = {}
    /\ Len(cret) = 3
    /\ \E i, j, k \in 1..3 :
        /\ cret[i].called_base = "N"
        /\ cret[j].called_base = cargs.sequence[j]
        /\ "moderate_quality" \in FlagSet(cret[j].flags)
        /\ cret[k].called_base = cargs.sequence[k]
        /\ cret[k].flags = <<"no_trace_data">>

\* The position of the call has no entry in the peak-location map.
PeakEntryAbsent ==
    \/ Len(cargs.traces.peak_locations) = 0
    \/ cargs.position >= Len(cargs.traces.peak_locations)

\* C18: for a position without a peak-location entry all four channel
\* intensities are 0 and the snr is 0, and with snr_min > 0 the call is N
\* with the no-call mode and the flag low_quality, whatever the quality.
C18_AbsentPeakUnreadable ==
    (cfn = "_call_position" /\ PeakEntryAbsent) =>
        /\ \A base \in Channels :
              get_intensities_at_position(cargs.traces, cargs.position,
                                          config.peak_window)[base] = 0
        /\ cret.primary_intensity = 0
        /\ cret.secondary_intensity = 0
        /\ REq(cret.snr, <<0, 1>>)
        /\ RLt(<<0, 1>>, config.snr_min) =>
              /\ cret.called_base = "N"
              /\ ModeName(cret.call_mode) = "no-call"
              /\ cret.flags = <<"low_quality">>

\* C18 witness: a position beyond a one-entry peak-location map, with
\* confident quality and positive samples in the traces, is called N.
C18_Witness ==
    /\ cfn = "_call_position"
    /\ Len(cargs.traces.peak_locations) = 1
    /\ cargs.position = 1
    /\ cargs.quality >= config.q_confident
    /\ cargs.traces["A"][1] > 0
    /\ cargs.traces["A"][TraceLen] > 0
    /\ RLt(<<0, 1>>, config.snr_min)
    /\ cret.called_base = "N"
    /\ cret.flags = <<"low_quality">>

\* C30: with trace data call_bases returns one BaseCall per position of the
\* sequence, in position order; in each the primary and the secondary base
\* are two distinct members of {A, C, G, T}; mode single implies called =
\* primary base; mode ambiguous implies called is the IUPAC code, one of R,
\* Y, S, W, K, M, of the two bases; and the mode is the no-call mode exactly
\* when called = N.
C30_OneConsistentCallPerPosition ==
    (cfn = "call_bases" /\ DOMAIN cargs.traces # {}) =>
        /\ Len(cret) = Len(cargs.sequence)
        /\ \A i \in 1..Len(cret) :
              LET bc == cret[i]
              IN  /\ bc.position = i - 1
                  /\ bc.primary_base \in {"A", "C", "G", "T"}
                  /\ bc.secondary_base \in {"A", "C", "G", "T"}
                  /\ bc.primary_base # bc.secondary_base
                  /\ bc.call_mode \in {"single", "ambiguous", "N"}
                  /\ bc.call_mode = "single" => bc.called_base = bc.primary_base
                  /\ bc.call_mode = "ambiguous" =>
                        /\ bc.called_base \in {"R", "Y", "S", "W", "K", "M"}
                        /\ bc.called_base = TableIupac(bc.primary_base, bc.secondary_base)
                  /\ bc.call_mode = "N" <=> bc.called_base = "N"

\* C30 witness: a read of two positions with trace data whose calls are a
\* base, mode single, and an IUPAC code, mode ambiguous, or a no-call.
C30_Witness ==
    /\ cfn = "call_bases"
    /\ DOMAIN cargs.traces # {}
    /\ Len(cret) = 2
    /\ \E i, j \in 1..2 :
        /\ cret[i].call_mode = "ambiguous"
        /\ cret[i].called_base = "R"
        /\ cret[j].call_mode = "N"
        /\ cret[j].called_base = "N"

\* ------------------------------------------------------------------------
\* Properties of the QC metrics (checked under SpecQc)
\* ------------------------------------------------------------------------

\* C19: compute_qc_metrics reports raw_length = len(seq),
\* trimmed_length = trim_end - trim_start, and passed_minlen = yes exactly
\* when trimmed_length >= min_length, no otherwise.
C19_LengthsAndPassFlag ==
    qfn = "compute_qc_metrics" =>
        /\ qret.raw_length = Len(qargs.seq)
        /\ qret.trimmed_length = qargs.trim_end - qargs.trim_start
        /\ qret.passed_minlen \in {"yes", "no"}
        /\ qret.passed_minlen = "yes" <=>
               qargs.trim_end - qargs.trim_start >= qargs.min_length

\* C19 witness: a read whose quality vector is longer than its sequence and
\* whose trimmed length equals min_length = 2 passes.
C19_Witness ==
    /\ qfn = "compute_qc_metrics"
    /\ Len(qargs.quals) > Len(qargs.seq)
    /\ Len(qargs.seq) > 0
    /\ qargs.min_length = 2
    /\ qret.trimmed_length = 2
    /\ qret.raw_length = Len(qargs.seq)
    /\ qret.passed_minlen = "yes"

\* The lengths of the runs of qs all of whose bases have quality >= T; the
\* empty run has length 0.
HqRunLengths(qs, T) ==
    {0} \cup {j - i + 1 : <<i, j>> \in
                {w \in (1..Len(qs)) \X (1..Len(qs)) :
                    /\ w[1] <= w[2]
                    /\ \A k \in w[1]..w[2] : qs[k] >= T}}

\* C20: _longest_hq_stretch returns the length of the longest contiguous run
\* of bases with quality >= threshold: 0 when the vector is empty or no base
\* qualifies, len(quals) when all bases qualify.
C20_LongestRun ==
    qfn = "_longest_hq_stretch" =>
        /\ qret \in HqRunLengths(qargs.quals, qargs.threshold)
        /\ \A n \in HqRunLengths(qargs.quals, qargs.threshold) : n <= qret
        /\ (\A k \in 1..Len(qargs.quals) : qargs.quals[k] < qargs.threshold)
               => qret = 0
        /\ (\A k \in 1..Len(qargs.quals) : qargs.quals[k] >= qargs.threshold)
               => qret = Len(qargs.quals)

\* C20 witness: a run of two qualifying bases comes after a shorter run and
\* a base below the threshold, and 2 is returned.
C20_Witness ==
    /\ qfn = "_longest_hq_stretch"
    /\ Len(qargs.quals) = 4
    /\ qargs.quals[1] >= qargs.threshold
    /\ qargs.quals[2] < qargs.threshold
    /\ qargs.quals[3] >= qargs.threshold
    /\ qargs.quals[4] >= qargs.threshold
    /\ qret = 2

\* The number of the qualities of the call that are at least v.
QualsAtLeast(v) == Cardinality({k \in 1..Len(qargs.quals) : qargs.quals[k] >= v})

\* The reported value r is the quotient c/n to the four decimals reported:
\* at most half a unit of the fourth decimal away from it, and equal to it
\* when the quotient has no more than four decimals.
ReportsQuotient(r, c, n) ==
    /\ r[2] = 10000
    /\ 2 * (r[1] * n - c * 10000) <= n
    /\ 2 * (c * 10000 - r[1] * n) <= n
    /\ (c * 10000) % n = 0 => r[1] * n = c * 10000

\* C21: for a non-empty quality vector compute_qc_metrics reports, to the
\* four decimals of the report, count(q >= 20)/len(quals) as pct_q20 and
\* count(q >= 30)/len(quals) as pct_q30, so pct_q30 <= pct_q20; both are 0
\* for an empty vector; for quals = [20, 20, 10, 30] they are 3/4 and 1/4.
C21_QualityFractions ==
    qfn = "compute_qc_metrics" =>
        /\ Len(qargs.quals) > 0 =>
              /\ ReportsQuotient(qret.pct_q20, QualsAtLeast(20), Len(qargs.quals))
              /\ ReportsQuotient(qret.pct_q30, QualsAtLeast(30), Len(qargs.quals))
        /\ Len(qargs.quals) = 0 =>
              /\ REq(qret.pct_q20, <<0, 1>>)
              /\ REq(qret.pct_q30, <<0, 1>>)
        /\ RLe(qret.pct_q30, qret.pct_q20)
        /\ qargs.quals = <<20, 20, 10, 30>> =>
              /\ REq(qret.pct_q20, <<3, 4>>)
              /\ REq(qret.pct_q30, <<1, 4>>)

\* C21 witness: the call with quals = [20, 20, 10, 30] reported 0.75 and
\* 0.25.
C21_Witness ==
    /\ qfn = "compute_qc_metrics"
    /\ qargs.quals = <<20, 20, 10, 30>>
    /\ qret.pct_q20 = <<7500, 10000>>
    /\ qret.pct_q30 = <<2500, 10000>>

\* The reads of the batch of the call whose pass flag is yes.
PassedReads == {i \in 1..Len(qargs.metrics_list) : qargs.metrics_list[i].passed_minlen = "yes"}

\* The reported value r is the percentage 100 * c / n to the two decimals
\* reported: at most half a unit of the second decimal away from it, and
\* equal to it when the percentage has no more than two decimals.
ReportsPercent(r, c, n) ==
    /\ r[2] = 100
    /\ 2 * (r[1] * n - c * 10000) <= n
    /\ 2 * (c * 10000 - r[1] * n) <= n
    /\ (c * 10000) % n = 0 => r[1] * n = c * 10000

\* C22: for a non-empty batch compute_summary_stats reports total_reads = the
\* batch size, reads_passed_minlen = the number of reads whose pass flag is
\* yes, reads_failed_minlen = total_reads - reads_passed_minlen, and, to the
\* two decimals of the report, pct_passed = 100 * reads_passed_minlen / total_reads.
C22_BatchCounts ==
    (qfn = "compute_summary_stats" /\ qargs.metrics_list # <<>>) =>
        /\ qret.total_reads = Len(qargs.metrics_list)
        /\ qret.reads_passed_minlen = Cardinality(PassedReads)
        /\ qret.reads_failed_minlen = qret.total_reads - qret.reads_passed_minlen
        /\ ReportsPercent(qret.pct_passed, qret.reads_passed_minlen, qret.total_reads)

\* C22 witness: a batch of three reads of which only the second passed:
\* 3 reads, 1 passed, 2 failed, 33.33 percent.
C22_Witness ==
    /\ qfn = "compute_summary_stats"
    /\ Len(qargs.metrics_list) = 3
    /\ PassedReads = {2}
    /\ qret.total_reads = 3
    /\ qret.reads_passed_minlen = 1
    /\ qret.reads_failed_minlen = 2
    /\ qret.pct_passed = <<3333, 100>>

\* C23: for the empty batch compute_summary_stats returns a record whose
\* counts are 0 and whose means, medians and percentage are 0.
C23_EmptyBatchAllZero ==
    (qfn = "compute_summary_stats" /\ qargs.metrics_list = <<>>) =>
        /\ qret.total_reads = 0
        /\ qret.reads_passed_minlen = 0
        /\ qret.reads_failed_minlen = 0
        /\ \A f \in SummaryFloatFields : REq(qret[f], <<0, 1>>)
        /\ DOMAIN qret = SummaryFloatFields \cup {"total_reads", "reads_passed_minlen", "reads_failed_minlen"}

\* C23 witness: the call with the empty batch returned a record with
\* total_reads = 0.
C23_Witness ==
    /\ qfn = "compute_summary_stats"
    /\ qargs.metrics_list = <<>>
    /\ qret.total_reads = 0
    /\ REq(qret.pct_passed, <<0, 1>>)

\* The orders in which a batch can be collected.
OrdersOf(batch) ==
    {[i \in 1..Len(batch) |-> batch[f[i]]] :
        f \in {g \in [1..Len(batch) -> 1..Len(batch)] :
                  \A i, j \in 1..Len(batch) : g[i] = g[j] => i = j}}

\* The fields of the summary whose float depends on the order of the batch:
\* the means of the float fields, summed in the order of the batch, for
\* three reads or more. The sums of the integer fields are exact, a median
\* is taken of the sorted values and pct_passed is computed from counts.
OrderSensitiveFields(batch) ==
    IF Len(batch) >= 3
    THEN {"mean_mean_q", "mean_pct_q20", "mean_pct_q30", "mean_gc_percent",
          "mean_expected_errors"}
    ELSE {}

\* C24 as stated: the summary computed from the collected per-read metrics
\* is the same for every order of the batch (the roundings that do not
\* depend on the order being the same in the two computations).
C24_SummaryOrderIndependent ==
    qfn = "compute_summary_stats" =>
        \A batch \in OrdersOf(qargs.metrics_list) :
            \A rounded_up \in SUBSET UndecidedFields(batch) :
                (rounded_up \ OrderSensitiveFields(batch)
                    = qargs.rounded_up \ OrderSensitiveFields(batch))
                => compute_summary_stats(batch, rounded_up) = qret

\* ------------------------------------------------------------------------
\* Properties of file discovery (checked under SpecFiles)
\* ------------------------------------------------------------------------

\* The files the inputs of the call name: the files given and the files the
\* directories given list.
NamedFiles ==
    UNION {IF input.kind = "file" THEN {input.path}
           ELSE IF input.kind = "dir"
           THEN LET listed == IF iargs.recursive THEN input.deep ELSE input.listing
                IN  {listed[k] : k \in 1..Len(listed)}
           ELSE {} : input \in {iargs.inputs[k] : k \in 1..Len(iargs.inputs)}}

IsAb1Name(path) == path.ext \in {".ab1", ".AB1"}

IsPhdName(path) == path.ext \in {".phd.1", ".PHD.1"}

\* C25: discover_files returns at most one (path, format) entry per
\* sample_id, each entry a named file with its format, and for a sample_id
\* for which the inputs name both an .ab1 and a .phd.1 file the entry
\* returned is an .ab1 file.
C25_OneEntryPerSample ==
    ifn = "discover_files" =>
        /\ \A i, j \in 1..Len(iret) : iret[i][1].stem = iret[j][1].stem => i = j
        /\ \A i \in 1..Len(iret) :
              /\ iret[i][1] \in NamedFiles
              /\ IsAb1Name(iret[i][1]) \/ IsPhdName(iret[i][1])
              /\ iret[i][2] = (IF IsAb1Name(iret[i][1]) THEN "ab1" ELSE "phd.1")
        /\ \A a, b \in NamedFiles :
              (IsAb1Name(a) /\ IsPhdName(b) /\ a.stem = b.stem) =>
                  \E i \in 1..Len(iret) :
                      /\ iret[i][1].stem = a.stem
                      /\ IsAb1Name(iret[i][1])
                      /\ iret[i][2] = "ab1"

\* C25 witness: the .ab1 file of s1 was given before the directory that
\* holds its .phd.1 file, and the .ab1 file is the one entry returned.
C25_Witness ==
    /\ ifn = "discover_files"
    /\ iargs.inputs = <<FileInput(S1Ab1), OldDir>>
    /\ iret = << <<S1Ab1, "ab1">> >>

\* ------------------------------------------------------------------------
\* Properties of the runs of the commands (checked under SpecCli)
\* ------------------------------------------------------------------------

\* C26: in a run of qc or all the summary is computed at most once; when it
\* has been computed the loop has taken every discovered file, each file is
\* a metrics entry or counted as skipped, at least one read was processed,
\* the summary was written and the command returned; a command that returned
\* computed it; and a run that ended with no file discovered or no read
\* processed did not return normally (exit code 1 once the loop is over) and
\* computed and wrote no summary.
C26_SummaryOnceAfterAllFiles ==
    /\ cli_summary_calls <= 1
    /\ cli_summary_calls = 1 =>
          /\ pc = "exited"
          /\ cli_index = Len(cli_files)
          /\ Len(cli_metrics_list) + cli_skipped_count = Len(cli_files)
          /\ Len(cli_metrics_list) >= 1
          /\ cli_summary # <<>>
          /\ "summary_stats" \in cli_outputs
          /\ cli_exit = "returned"
    /\ cli_summary_calls = 0 =>
          /\ cli_summary = <<>>
          /\ "summary_stats" \notin cli_outputs
    /\ (pc = "exited" /\ HasMetrics(cli_options.command)) =>
          /\ cli_exit = "returned" => cli_summary_calls = 1
          /\ (cli_files = <<>> \/ cli_metrics_list = <<>>) =>
                /\ cli_exit # "returned"
                /\ cli_index = Len(cli_files) => cli_exit = "Exit(code=1)"
                /\ cli_summary_calls = 0

\* C26 witness: a run over three files, one of them skipped, that returned
\* after computing the summary of two reads.
C26_Witness ==
    /\ pc = "exited"
    /\ cli_exit = "returned"
    /\ Len(cli_files) = 3
    /\ cli_skipped_count = 1
    /\ cli_summary_calls = 1
    /\ cli_summary.total_reads = 2

\* The files among the first n discovered that parse_sequence_file fails on.
FailedAmong(n) ==
    {k \in 1..n : parse_sequence_file(cli_files[k][1], cli_files[k][2]) = <<>>}

\* The entries the loop has collected, one for each read processed:
\* metrics_list in qc and all, trimmed_sequences in trim.
CollectedReads ==
    IF HasMetrics(cli_options.command) THEN cli_metrics_list ELSE cli_trimmed_sequences

\* The entry is the one the loop made for the file.
EntryOfFile(entry, file_path) ==
    IF HasMetrics(cli_options.command)
    THEN entry.source_file = file_path
    ELSE entry.read_id[1] = get_sample_id(file_path)

\* C27: in a run with a supported trimming method no file ends the run
\* before the loop is over; the files counted as skipped are those whose
\* parsing failed, the entries collected (the metrics entries in qc and all)
\* are, in order, those of the other files taken, and entries plus skipped
\* count is the number of files taken: the number of discovered files when
\* the loop has ended.
C27_ParseFailureSkipped ==
    (pc # "none" /\ cli_options.method \in {"mott", "ends"}) =>
        /\ cli_exit \in {"running", "returned", "Exit(code=1)"}
        /\ pc = "exited" => cli_index = Len(cli_files)
        /\ cli_skipped_count = Cardinality(FailedAmong(cli_index))
        /\ Len(CollectedReads) + cli_skipped_count = cli_index
        /\ HasMetrics(cli_options.command) =>
              Len(cli_metrics_list) + cli_skipped_count = cli_index
        /\ \A i \in 1..Len(CollectedReads) :
              \E k \in (1..cli_index) \ FailedAmong(cli_index) :
                  /\ Cardinality({h \in (1..k) \ FailedAmong(cli_index) : TRUE}) = i
                  /\ EntryOfFile(CollectedReads[i], cli_files[k][1])

\* C27 witness: the first of the files did not parse, the run went on, and
\* the loop ended with one file skipped and two metrics entries.
C27_Witness ==
    /\ pc = "exited"
    /\ cli_options.method = "ends"
    /\ Len(cli_files) = 3
    /\ 1 \in FailedAmong(3)
    /\ cli_skipped_count = 1
    /\ Len(cli_metrics_list) = 2

\* ------------------------------------------------------------------------
\* Trimming and the classifier (checked under SpecTrim)
\* ------------------------------------------------------------------------

\* Symbols of the sequences compared: a base and a symbol the caller puts in
\* its place.
RecalledSymbols == {"A", "N"}

\* The sequence the caller hands to apply_trim for the read of the call when
\* the file has no trace data.
RecalledOfCall == base_calls_to_sequence(call_bases(DefaultConfig, <<>>, seq, quals))

\* The trim coordinates, trimmed length and pass flag in the metrics of
\* sequence s trimmed to [trim_start, trim_end).
TrimFieldsOf(s, trim_start, trim_end, min_length) ==
    LET m == compute_qc_metrics("read1", "read1.ab1", "ab1", s, quals, trim_start, trim_end, threshold, min_length, FALSE)
    IN  <<m.trim_start, m.trim_end, m.trimmed_length, m.passed_minlen>>

\* C28: for the quality vector, method and threshold of a call of apply_trim
\* every sequence of the length of the one given, the reclassified sequence
\* among them, gets the same outcome: the same exception or the same
\* (start, end); and the metrics of the reclassified sequence hold the same
\* trim coordinates, trimmed length and pass flag as those of the original.
C28_TrimIgnoresSequence ==
    fn = "apply_trim" =>
        /\ Len(RecalledOfCall) = Len(seq)
        /\ \A s2 \in [1..Len(seq) -> RecalledSymbols] \cup {RecalledOfCall} :
              LET out == apply_trim(s2, quals, method, threshold)
              IN  /\ out.raised = raised
                  /\ out.ran = ran
                  /\ raised = "none" => (out.ret[3] = ret[3] /\ out.ret[4] = ret[4])
        /\ raised = "none" =>
              LET out == apply_trim(RecalledOfCall, quals, method, threshold)
              IN  \A min_length \in MinLengthValues :
                      TrimFieldsOf(RecalledOfCall, out.ret[3], out.ret[4], min_length)
                          = TrimFieldsOf(seq, ret[3], ret[4], min_length)

\* C28 witness: a read whose first base the caller turns into N is trimmed
\* to [1, 3), the window of its qualities.
C28_Witness ==
    /\ fn = "apply_trim"
    /\ method = "mott"
    /\ threshold = 20
    /\ seq = <<"G", "G", "A">>
    /\ quals = <<10, 30, 30>>
    /\ RecalledOfCall = <<"N", "G", "A">>
    /\ ret[3] = 1
    /\ ret[4] = 3

\* C29: when trim_mott returns a non-empty window [s, e), the bases at s and
\* at e - 1 have quality > T and trim_ends on the same input returns a
\* non-empty window [s', e') with s' <= s and e <= e'.
C29_MottWithinEnds ==
    (fn = "trim_mott" /\ ret[1] < ret[2]) =>
        /\ quals[ret[1] + 1] > threshold
        /\ quals[ret[2]] > threshold
        /\ LET ends == trim_ends(quals, threshold)
           IN  /\ ends[1] < ends[2]
               /\ ends[1] <= ret[1]
               /\ ret[2] <= ends[2]

\* C29 witness: quals = [20, 30, 10, 20] with T = 20: trim_mott keeps [1, 2),
\* strictly inside the window [0, 4) of trim_ends.
C29_Witness ==
    /\ fn = "trim_mott"
    /\ quals = <<20, 30, 10, 20>>
    /\ threshold = 20
    /\ ret = <<1, 2>>
    /\ trim_ends(quals, threshold) = <<0, 4>>

=============================================================================
